---- MODULE Spec2Model ----
(***************************************************************************)
(* A model of CppEasySerDes: the codec triple Validate / Serialise /       *)
(* Deserialise of esd::Serialiser<T> over nlohmann::json trees, the        *)
(* ClassHelper (aggregate builder) and the shared_ptr identity cache kept  *)
(* in an esd::Context.                                                     *)
(*                                                                         *)
(* Three state machines share the module:                                  *)
(*   Spec         the codec harness: a caller serialises a value or hands  *)
(*                in a tree, then validates / deserialises / re-serialises *)
(*   SpecBuilder  one ClassHelper configuration being registered and used  *)
(*   SpecShared   shared_ptr handles, serialised trees and Contexts        *)
(***************************************************************************)
EXTENDS Integers, Sequences, FiniteSets, TLC

(***************************************************************************)
(* Bounds of the model                                                     *)
(***************************************************************************)
\* width in bits of the narrow integer type T under test (int8_t scaled down)
IntBits == 2
\* width in bits of nlohmann::json::number_integer_t / number_unsigned_t, scaled down
JsonBits == 3
\* longest array tree handed in by the caller
MaxLen == 2

Pow2(n) == 2 ^ n

(***************************************************************************)
(* nlohmann::json trees.  A tree is a tuple: its value_t, then its payload. *)
(* A float node holds twice its value, so that halves are representable.   *)
(***************************************************************************)
Kind(x) == x[1]
Val(x) == x[Len(x)]
JNull == <<"null">>
JBool(b) == <<"boolean", b>>
JInt(n) == <<"number_integer", n>>
JUInt(n) == <<"number_unsigned", n>>
JFloat(h) == <<"number_float", h>>
JStr(s) == <<"string", s>>
JArr(s) == <<"array", s>>
JObj(f) == <<"object", f>>

IsNumber(j) == Kind(j) \in {"number_integer", "number_unsigned", "number_float"}

\* the numeric value of a number node, doubled (so that floats stay integral)
Twice(j) == IF Kind(j) = "number_float" THEN Val(j) ELSE 2 * Val(j)

\* nlohmann::json operator==: same value_t compares the payload, two number
\* nodes of different value_t compare numerically, anything else differs
RECURSIVE JsonEq(_, _)
JsonEq(a, b) ==
    IF IsNumber(a) /\ IsNumber(b) THEN Twice(a) = Twice(b)
    ELSE IF Kind(a) # Kind(b) THEN FALSE
    ELSE IF Kind(a) = "null" THEN TRUE
    ELSE IF Kind(a) = "array" THEN
        /\ Len(Val(a)) = Len(Val(b))
        /\ \A i \in 1..Len(Val(a)) : JsonEq(Val(a)[i], Val(b)[i])
    ELSE IF Kind(a) = "object" THEN
        /\ DOMAIN Val(a) = DOMAIN Val(b)
        /\ \A key \in DOMAIN Val(a) : JsonEq(Val(a)[key], Val(b)[key])
    ELSE Val(a) = Val(b)

\* json::contains(key): false for every tree that is not an object
Contains(j, key) == Kind(j) = "object" /\ key \in DOMAIN Val(j)

\* the elements a range-for over a tree visits: an array's elements, nothing
\* for null, the node itself for any other primitive, the values of an object
Items(j) ==
    IF Kind(j) = "array" THEN Val(j)
    ELSE IF Kind(j) = "null" THEN <<>>
    ELSE IF Kind(j) = "object" THEN
        CHOOSE s \in [1..Cardinality(DOMAIN Val(j)) -> {Val(j)[key] : key \in DOMAIN Val(j)}] :
            \A key \in DOMAIN Val(j) : \E i \in DOMAIN s : s[i] = Val(j)[key]
    ELSE <<j>>

\* MatchType(target, toMatch) of JsonHelpers.h
MatchType(target, toMatch) ==
    \/ target = toMatch
    \/ /\ target = "number_float"
       /\ toMatch \in {"number_integer", "number_unsigned"}
    \/ /\ target = "number_integer"
       /\ toMatch = "number_unsigned"

(***************************************************************************)
(* C++ values.  A value is a tuple: the kind of its type, then its state; a *)
(* call that throws (nlohmann type_error / out_of_range) yields Throw.     *)
(***************************************************************************)
Throw == <<"throw">>
NoVal == <<"none">>
BoolV(b) == <<"bool", b>>
IntV(n) == <<"int", n>>
StrV(s) == <<"str", s>>
ByteV(n) == <<"byte", n>>
\* a double, kept as twice its value like the float node
FloatV(h) == <<"float", h>>
VecV(s) == <<"vec", s>>
SetV(s) == <<"set", s>>
Has(x) == x[2]
IsNull(x) == x[2]
Index(x) == x[2]
NullOpt == <<"opt", FALSE>>
SomeV(x) == <<"opt", TRUE, x>>
VariantV(i, x) == <<"variant", i, x>>
NullPtr == <<"ptr", TRUE>>
PtrV(x) == <<"ptr", FALSE, x>>
ObjV(f) == <<"obj", f>>

\* static_cast to a signed / unsigned integer type of w bits
WrapSigned(n, w) == ((n + Pow2(w - 1)) % Pow2(w)) - Pow2(w - 1)
WrapUnsigned(n, w) == n % Pow2(w)
Wrap(signed, n, w) == IF signed THEN WrapSigned(n, w) ELSE WrapUnsigned(n, w)

\* static_cast<integer>(double): truncation toward zero of h / 2
Truncate(h) == IF h >= 0 THEN h \div 2 ELSE -((-h) \div 2)

\* json::get<T>() for an integer type T of w bits (get_arithmetic_value)
GetInteger(j, signed, w) ==
    IF Kind(j) \in {"number_integer", "number_unsigned"} THEN IntV(Wrap(signed, Val(j), w))
    ELSE IF Kind(j) = "number_float" THEN IntV(Wrap(signed, Truncate(Val(j)), w))
    ELSE IF Kind(j) = "boolean" THEN IntV(IF Val(j) THEN 1 ELSE 0)
    ELSE Throw

(***************************************************************************)
(* Types.  A type descriptor selects the Serialiser<T> specialisation.     *)
(***************************************************************************)
BoolT == [t |-> "bool"]
SignedT == [t |-> "signed"]
UnsignedT == [t |-> "unsigned"]
StringT == [t |-> "string"]
FloatT == [t |-> "float"]
VectorT(e) == [t |-> "range", c |-> "vector", e |-> e]
SetT(e) == [t |-> "range", c |-> "set", e |-> e]
ArrayT(e, n) == [t |-> "array", e |-> e, n |-> n]
OptionalT(e) == [t |-> "optional", e |-> e]
VariantT(alts) == [t |-> "variant", alts |-> alts]
UniquePtrT(e) == [t |-> "unique_ptr", e |-> e]
ClassT(cfg) == [t |-> "class", cfg |-> cfg]

\* detail::TypeNameStr<T>(), as far as the variant codec needs it
TypeNameStr(T) ==
    CASE T.t = "bool" -> "bool"
      [] T.t = "signed" -> "int"
      [] T.t = "unsigned" -> "unsigned int"
      [] T.t = "string" -> "std::string"
      [] T.t = "float" -> "double"
      [] OTHER -> T.t

\* a value-initialised T
RECURSIVE DefaultValue(_)
DefaultValue(T) ==
    CASE T.t = "bool" -> BoolV(FALSE)
      [] T.t \in {"signed", "unsigned"} -> IntV(0)
      [] T.t = "string" -> StrV("")
      [] T.t = "float" -> FloatV(0)
      [] T.t = "range" -> IF T.c = "set" THEN SetV({}) ELSE VecV(<<>>)
      [] T.t = "array" -> VecV([i \in 1..T.n |-> DefaultValue(T.e)])
      [] T.t = "optional" -> NullOpt
      [] T.t = "variant" -> VariantV(1, DefaultValue(T.alts[1]))
      [] T.t = "unique_ptr" -> NullPtr
      [] T.t = "class" ->
            ObjV([key \in DOMAIN T.cfg.variables |-> DefaultValue(T.cfg.variables[key].type)])

RECURSIVE Validate(_, _)
RECURSIVE Serialise(_, _)
RECURSIVE Deserialise(_, _)
RECURSIVE ImplValidate(_, _)
RECURSIVE ImplSerialise(_, _)
RECURSIVE ImplDeserialise(_, _)
RECURSIVE ImplDeserialiseInPlace(_, _)

(***************************************************************************)
(* Built-in types (BuiltInTypeSupport.h)                                   *)
(***************************************************************************)
ValidateBool(j) == Kind(j) = "boolean"
SerialiseBool(v) == JBool(Val(v))
DeserialiseBool(j) == IF Kind(j) = "boolean" THEN BoolV(Val(j)) ELSE Throw

SerialiseSigned(v) == JInt(Val(v))
DeserialiseSigned(j) == GetInteger(j, TRUE, IntBits)
ValidateSigned(j) ==
    /\ MatchType("number_integer", Kind(j))
    /\ GetInteger(j, TRUE, JsonBits) = DeserialiseSigned(j)

SerialiseUnsigned(v) == JUInt(Val(v))
DeserialiseUnsigned(j) == GetInteger(j, FALSE, IntBits)
ValidateUnsigned(j) ==
    /\ MatchType("number_unsigned", Kind(j))
    /\ GetInteger(j, FALSE, JsonBits) = DeserialiseUnsigned(j)

\* json::get<double>() (get_arithmetic_value)
GetFloat(j) ==
    IF IsNumber(j) THEN FloatV(Twice(j))
    ELSE IF Kind(j) = "boolean" THEN FloatV(IF Val(j) THEN 2 ELSE 0)
    ELSE Throw

SerialiseFloat(v) == JFloat(Val(v))
DeserialiseFloat(j) == GetFloat(j)
ValidateFloat(j) ==
    /\ MatchType("number_float", Kind(j))
    /\ GetFloat(j) = DeserialiseFloat(j)

(***************************************************************************)
(* Standard library types (StdLibSupport.h)                                *)
(***************************************************************************)
ValidateString(j) == Kind(j) = "string"
SerialiseString(v) == JStr(Val(v))
DeserialiseString(j) == IF Kind(j) = "string" THEN StrV(Val(j)) ELSE Throw

\* the elements of a container in iteration order (a std::set iterates ascending)
Elements(v) ==
    IF Kind(v) = "set" THEN
        CHOOSE s \in [1..Cardinality(Val(v)) -> Val(v)] :
            \A a, b \in DOMAIN s : a < b => Val(s[a]) < Val(s[b])
    ELSE Val(v)

\* std::inserter(items, items.end()) over the decoded elements, in order
Inserted(c, s) ==
    IF \E i \in DOMAIN s : s[i] = Throw THEN Throw
    ELSE IF c = "set" THEN SetV({s[i] : i \in DOMAIN s})
    ELSE VecV(s)

ValidateRange(T, j) ==
    /\ Kind(j) = "array"
    /\ \A i \in DOMAIN Val(j) : Validate(T.e, Val(j)[i])
SerialiseRange(T, v) ==
    LET s == Elements(v) IN JArr([i \in DOMAIN s |-> Serialise(T.e, s[i])])
DeserialiseRange(T, j) ==
    LET s == Items(j) IN Inserted(T.c, [i \in DOMAIN s |-> Deserialise(T.e, s[i])])

ValidateArray(T, j) ==
    /\ Kind(j) = "array"
    /\ Len(Val(j)) = T.n
    /\ \A i \in DOMAIN Val(j) : Validate(T.e, Val(j)[i])
SerialiseArray(T, v) == JArr([i \in DOMAIN Val(v) |-> Serialise(T.e, Val(v)[i])])
\* serialised.at(I) throws on a non-array and on an index past the end
DeserialiseArray(T, j) ==
    IF Kind(j) # "array" \/ Len(Val(j)) < T.n THEN Throw
    ELSE Inserted("vector", [i \in 1..T.n |-> Deserialise(T.e, Val(j)[i])])

OptionalNullString == "std::nullopt"
ValidateOptional(T, j) == JsonEq(j, JStr(OptionalNullString)) \/ Validate(T.e, j)
SerialiseOptional(T, v) ==
    IF Has(v) THEN Serialise(T.e, Val(v)) ELSE JStr(OptionalNullString)
DeserialiseOptional(T, j) ==
    IF ~JsonEq(j, JStr(OptionalNullString)) THEN
        LET x == Deserialise(T.e, j) IN IF x = Throw THEN Throw ELSE SomeV(x)
    ELSE NullOpt

VariantNullString == "nullVariant"
VariantKeys(T) == {TypeNameStr(T.alts[i]) : i \in DOMAIN T.alts}
\* "valid" is first set from the kind and the size and then overwritten by the fold
ValidateVariant(T, j) ==
    \A i \in DOMAIN T.alts :
        LET key == TypeNameStr(T.alts[i]) IN
        /\ Contains(j, key)
        /\ \/ JsonEq(Val(j)[key], JStr(VariantNullString))
           \/ Validate(T.alts[i], Val(j)[key])
\* a variant Serialise that writes the held alternative's key only
SerialiseVariantHeldOnly(T, v) ==
    LET key == TypeNameStr(T.alts[Index(v)]) IN
    JObj(key :> Serialise(T.alts[Index(v)], Val(v)))
SerialiseVariant(T, v) ==
    JObj([key \in VariantKeys(T) |->
            LET i == CHOOSE a \in DOMAIN T.alts : TypeNameStr(T.alts[a]) = key IN
            IF Index(v) = i THEN Serialise(T.alts[i], Val(v)) ELSE JStr(VariantNullString)])
\* the fold assigns ret for every key that is not the null string: the last one wins
RECURSIVE VariantFold(_, _, _, _)
VariantFold(T, j, i, ret) ==
    IF i > Len(T.alts) THEN ret
    ELSE LET key == TypeNameStr(T.alts[i]) IN
         IF ~Contains(j, key) THEN Throw
         ELSE IF ~JsonEq(Val(j)[key], JStr(VariantNullString)) THEN
              LET x == Deserialise(T.alts[i], Val(j)[key]) IN
              IF x = Throw THEN Throw ELSE VariantFold(T, j, i + 1, VariantV(i, x))
         ELSE VariantFold(T, j, i + 1, ret)
DeserialiseVariant(T, j) == VariantFold(T, j, 1, DefaultValue(T))

NullPointerString == "nullptr"
ValidateUniquePtr(T, j) ==
    IF JsonEq(j, JStr(NullPointerString)) THEN TRUE ELSE Validate(T.e, j)
SerialiseUniquePtr(T, v) ==
    IF IsNull(v) THEN JStr(NullPointerString) ELSE Serialise(T.e, Val(v))
DeserialiseUniquePtr(T, j) ==
    IF JsonEq(j, JStr(NullPointerString)) THEN NullPtr
    ELSE LET x == IF T.e.t = "class" THEN ImplDeserialiseInPlace(T.e.cfg, j)
                  ELSE Deserialise(T.e, j)
         IN IF x = Throw THEN Throw ELSE PtrV(x)

(***************************************************************************)
(* ClassHelper (ClassHelper.h, internal::Implementation).                  *)
(* A configuration holds the private members of Implementation:            *)
(*   variables              variables_: key -> Variable; a Variable is the *)
(*                          type it is serialised as, its custom validator *)
(*                          and whether parser_ sets the value (a          *)
(*                          registered variable) or does nothing           *)
(*                          (a parameter)                                  *)
(*   constructor            "none", "default" (T is default constructible) *)
(*                          or "params" (SetConstruction was called)       *)
(*   constructorKeys        the parameter keys captured by constructor_    *)
(*   constructionVariables  constructionVariables_                         *)
(*   initialisationCalls    initialisationCalls_: the parameter keys each  *)
(*                          call reads                                     *)
(*   validators             interdependantVariablesValidators_: the keys   *)
(*                          each reads and the predicate it applies        *)
(* An instance of T is the map from the member a key stands for to its     *)
(* current value.                                                          *)
(***************************************************************************)
NewImplementation ==
    [variables |-> <<>>,
     constructor |-> "default",
     constructorKeys |-> <<>>,
     constructionVariables |-> <<>>,
     initialisationCalls |-> <<>>,
     validators |-> <<>>]

NoLabel == <<"label", FALSE>>
Label(s) == <<"label", TRUE, s>>

\* the custom validators and joint validators the model registers
CustomOk(id, x) ==
    CASE id = "none" -> TRUE
      [] id = "negative" -> Val(x) < 0
      [] id = "positive" -> Val(x) > 0
JointOk(pred, args) ==
    CASE pred = "minLeMax" -> Val(args[1]) <= Val(args[2])

GenerateUniqueKey(variables, prefix) ==
    LET Key(i) == prefix \o ToString(i)
        index == CHOOSE i \in 0..Cardinality(DOMAIN variables) :
                    /\ Key(i) \notin DOMAIN variables
                    /\ \A m \in 0..(i - 1) : Key(m) \in DOMAIN variables
    IN Key(index)

\* a registration that takes a user label as it is
ResolveLabelVerbatim(variables, label) ==
    IF ~Has(label) THEN GenerateUniqueKey(variables, "param") ELSE Val(label)

\* the key a registration ends up with
ResolveLabel(variables, label) ==
    IF ~Has(label) THEN GenerateUniqueKey(variables, "param")
    ELSE IF Val(label) \in DOMAIN variables THEN GenerateUniqueKey(variables, Val(label))
    ELSE Val(label)

\* std::map::insert: an existing key keeps its Variable
MapInsert(variables, key, variable) == variables @@ (key :> variable)

RegisterVariableAsParameter(cfg, label, type, custom) ==
    LET key == ResolveLabel(cfg.variables, label) IN
    [cfg EXCEPT !.variables =
        MapInsert(@, key, [type |-> type, custom |-> custom, setter |-> FALSE])]

RegisterVariableInternal(cfg, label, type, custom) ==
    LET key == ResolveLabel(cfg.variables, label) IN
    [cfg EXCEPT !.variables =
        MapInsert(@, key, [type |-> type, custom |-> custom, setter |-> TRUE])]

\* CreateParameter for each of params (label, type, custom), left to right: the
\* configuration afterwards and the keys of the Parameter<> objects returned
RECURSIVE CreateParameters(_, _, _, _)
CreateParameters(cfg, params, i, keys) ==
    IF i > Len(params) THEN [cfg |-> cfg, keys |-> keys]
    ELSE LET key == ResolveLabel(cfg.variables, params[i].label) IN
         CreateParameters(
            RegisterVariableAsParameter(cfg, params[i].label, params[i].type, params[i].custom),
            params, i + 1, Append(keys, key))

SetConstruction(cfg, keys) ==
    [cfg EXCEPT !.constructor = "params",
                !.constructorKeys = keys,
                !.constructionVariables = @ \o keys]

SetConstructionWithValidator(cfg, keys, pred) ==
    SetConstruction(
        [cfg EXCEPT !.validators = Append(@, [keys |-> keys, pred |-> pred])], keys)

AddInitialisationCall(cfg, keys) ==
    [cfg EXCEPT !.initialisationCalls = Append(@, keys)]

AddInitialisationCallWithValidator(cfg, keys, pred) ==
    AddInitialisationCall(
        [cfg EXCEPT !.validators = Append(@, [keys |-> keys, pred |-> pred])], keys)

\* a validator_ that leaves out the custom validator
VariableValidTypeOnly(variable, j) == Validate(variable.type, j)

\* Variable::validator_
VariableValid(variable, j) ==
    /\ Validate(variable.type, j)
    /\ \/ variable.custom = "none"
       \/ CustomOk(variable.custom, Deserialise(variable.type, j))

\* Serialiser<P>::Deserialise(serialised.at(key)): at() throws on a miss
ReadKey(cfg, j, key) ==
    IF ~Contains(j, key) THEN Throw
    ELSE Deserialise(cfg.variables[key].type, Val(j)[key])
ReadKeys(cfg, j, keys) == [i \in DOMAIN keys |-> ReadKey(cfg, j, keys[i])]
AnyThrow(s) == \E i \in DOMAIN s : s[i] = Throw

\* a Validate that never invokes the joint validators
RunValidatorsIgnored(cfg, j, i) == "true"

\* the validators run in registration order while "valid" is still true
RECURSIVE RunValidators(_, _, _)
RunValidators(cfg, j, i) ==
    IF i > Len(cfg.validators) THEN "true"
    ELSE LET args == ReadKeys(cfg, j, cfg.validators[i].keys) IN
         IF AnyThrow(args) THEN "throw"
         ELSE IF JointOk(cfg.validators[i].pred, args) THEN RunValidators(cfg, j, i + 1)
         ELSE "false"

\* "true", "false", or "throw" when an exception leaves Validate
ImplValidate(cfg, j) ==
    IF /\ Kind(j) = "object"
       /\ \A key \in DOMAIN Val(j) :
            /\ key \in DOMAIN cfg.variables
            /\ VariableValid(cfg.variables[key], Val(j)[key])
    THEN RunValidators(cfg, j, 1)
    ELSE "false"

ImplSerialise(cfg, value) ==
    JObj([key \in DOMAIN cfg.variables |->
            Serialise(cfg.variables[key].type, Val(value)[key])])

\* the instance with the members named by keys set to args
SetMembers(value, keys, args) ==
    ObjV([key \in DOMAIN Val(value) |->
            IF \E i \in DOMAIN keys : keys[i] = key
            THEN args[CHOOSE i \in DOMAIN keys : keys[i] = key]
            ELSE Val(value)[key]])

\* constructor_(toDeserialise)
Construct(cfg, j) ==
    IF cfg.constructor = "default" THEN DefaultValue(ClassT(cfg))
    ELSE LET args == ReadKeys(cfg, j, cfg.constructorKeys) IN
         IF AnyThrow(args) THEN Throw
         ELSE SetMembers(DefaultValue(ClassT(cfg)), cfg.constructorKeys, args)

\* the initialisation calls, in registration order
RECURSIVE Initialise(_, _, _, _)
Initialise(cfg, j, i, value) ==
    IF value = Throw \/ i > Len(cfg.initialisationCalls) THEN value
    ELSE LET keys == cfg.initialisationCalls[i]
             args == ReadKeys(cfg, j, keys) IN
         IF AnyThrow(args) THEN Throw
         ELSE Initialise(cfg, j, i + 1, SetMembers(value, keys, args))

\* memberHelper.parser_(toDeserialise.at(key), deserialised) for every variable:
\* at() is evaluated for parameters too, whose parser_ does nothing
ParseVariables(cfg, j, value) ==
    IF value = Throw THEN Throw
    ELSE IF \E key \in DOMAIN cfg.variables : ~Contains(j, key) THEN Throw
    ELSE LET parsed == [key \in DOMAIN cfg.variables |->
                          IF cfg.variables[key].setter
                          THEN Deserialise(cfg.variables[key].type, Val(j)[key])
                          ELSE Val(value)[key]] IN
         IF \E key \in DOMAIN parsed : parsed[key] = Throw THEN Throw
         ELSE ObjV(parsed)

ImplDeserialise(cfg, j) ==
    ParseVariables(cfg, j, Initialise(cfg, j, 1, Construct(cfg, j)))

\* the factory (make_unique<T>, make_shared<T>) is handed the decoded
\* constructionVariables_, twice; the object of the second call is completed
ImplDeserialiseInPlace(cfg, j) ==
    LET args == ReadKeys(cfg, j, cfg.constructionVariables)
        made == IF AnyThrow(args) THEN Throw
                ELSE SetMembers(DefaultValue(ClassT(cfg)), cfg.constructionVariables, args)
    IN ParseVariables(cfg, j, Initialise(cfg, j, 1, made))

(***************************************************************************)
(* Serialiser<T> dispatch                                                  *)
(***************************************************************************)
Validate(T, j) ==
    CASE T.t = "bool" -> ValidateBool(j)
      [] T.t = "signed" -> ValidateSigned(j)
      [] T.t = "unsigned" -> ValidateUnsigned(j)
      [] T.t = "string" -> ValidateString(j)
      [] T.t = "float" -> ValidateFloat(j)
      [] T.t = "range" -> ValidateRange(T, j)
      [] T.t = "array" -> ValidateArray(T, j)
      [] T.t = "optional" -> ValidateOptional(T, j)
      [] T.t = "variant" -> ValidateVariant(T, j)
      [] T.t = "unique_ptr" -> ValidateUniquePtr(T, j)
      [] T.t = "class" -> ImplValidate(T.cfg, j) = "true"

Serialise(T, v) ==
    CASE T.t = "bool" -> SerialiseBool(v)
      [] T.t = "signed" -> SerialiseSigned(v)
      [] T.t = "unsigned" -> SerialiseUnsigned(v)
      [] T.t = "string" -> SerialiseString(v)
      [] T.t = "float" -> SerialiseFloat(v)
      [] T.t = "range" -> SerialiseRange(T, v)
      [] T.t = "array" -> SerialiseArray(T, v)
      [] T.t = "optional" -> SerialiseOptional(T, v)
      [] T.t = "variant" -> SerialiseVariant(T, v)
      [] T.t = "unique_ptr" -> SerialiseUniquePtr(T, v)
      [] T.t = "class" -> ImplSerialise(T.cfg, v)

Deserialise(T, j) ==
    CASE T.t = "bool" -> DeserialiseBool(j)
      [] T.t = "signed" -> DeserialiseSigned(j)
      [] T.t = "unsigned" -> DeserialiseUnsigned(j)
      [] T.t = "string" -> DeserialiseString(j)
      [] T.t = "float" -> DeserialiseFloat(j)
      [] T.t = "range" -> DeserialiseRange(T, j)
      [] T.t = "array" -> DeserialiseArray(T, j)
      [] T.t = "optional" -> DeserialiseOptional(T, j)
      [] T.t = "variant" -> DeserialiseVariant(T, j)
      [] T.t = "unique_ptr" -> DeserialiseUniquePtr(T, j)
      [] T.t = "class" -> ImplDeserialise(T.cfg, j)

(***************************************************************************)
(* Whether Serialiser<T>::Validate(j), while it runs, calls a              *)
(* Serialiser<...>::Deserialise: the integer codecs do so in their second  *)
(* conjunct, a Variable's validator_ does so for its custom validator, a   *)
(* joint validator does so for every parameter; the containers hand the    *)
(* question to the elements they reach before && / all_of stops.           *)
(***************************************************************************)
RECURSIVE ValidateRunsDeserialise(_, _)
ValidateRunsDeserialise(T, j) ==
    CASE T.t = "signed" -> MatchType("number_integer", Kind(j))
      [] T.t = "unsigned" -> MatchType("number_unsigned", Kind(j))
      [] T.t \in {"range", "array"} ->
            /\ Kind(j) = "array"
            /\ T.t = "array" => Len(Val(j)) = T.n
            /\ \E i \in DOMAIN Val(j) :
                    /\ \A a \in 1..(i - 1) : Validate(T.e, Val(j)[a])
                    /\ ValidateRunsDeserialise(T.e, Val(j)[i])
      [] T.t = "optional" ->
            /\ ~JsonEq(j, JStr(OptionalNullString))
            /\ ValidateRunsDeserialise(T.e, j)
      [] T.t = "unique_ptr" ->
            /\ ~JsonEq(j, JStr(NullPointerString))
            /\ ValidateRunsDeserialise(T.e, j)
      [] T.t = "variant" ->
            \E i \in DOMAIN T.alts :
                /\ \A a \in 1..i : Contains(j, TypeNameStr(T.alts[a]))
                /\ \A a \in 1..(i - 1) :
                        \/ JsonEq(Val(j)[TypeNameStr(T.alts[a])], JStr(VariantNullString))
                        \/ Validate(T.alts[a], Val(j)[TypeNameStr(T.alts[a])])
                /\ ~JsonEq(Val(j)[TypeNameStr(T.alts[i])], JStr(VariantNullString))
                /\ ValidateRunsDeserialise(T.alts[i], Val(j)[TypeNameStr(T.alts[i])])
      [] T.t = "class" ->
            /\ Kind(j) = "object"
            /\ \/ \E key \in DOMAIN Val(j) \cap DOMAIN T.cfg.variables :
                    \/ ValidateRunsDeserialise(T.cfg.variables[key].type, Val(j)[key])
                    \/ /\ T.cfg.variables[key].custom # "none"
                       /\ Validate(T.cfg.variables[key].type, Val(j)[key])
               \/ /\ \A key \in DOMAIN Val(j) :
                        /\ key \in DOMAIN T.cfg.variables
                        /\ VariableValid(T.cfg.variables[key], Val(j)[key])
                  /\ \E i \in DOMAIN T.cfg.validators :
                        \E a \in DOMAIN T.cfg.validators[i].keys :
                            Contains(j, T.cfg.validators[i].keys[a])
      [] OTHER -> FALSE

(***************************************************************************)
(* API functions (Core.h)                                                  *)
(***************************************************************************)
Empty == <<"nullopt">>

\* a checked entry point that decodes without asking Validate
ApiDeserialiseUnguarded(T, j) == Deserialise(T, j)

\* esd::Deserialise<T>: std::nullopt unless Validate accepts the tree
ApiDeserialise(T, j) ==
    IF Validate(T, j) THEN Deserialise(T, j) ELSE Empty

\* the Serialiser<T> functions esd::Deserialise<T> itself calls, in order
ApiDeserialiseCalls(T, j) ==
    IF Validate(T, j) THEN <<"Validate", "Deserialise">> ELSE <<"Validate">>

\* esd::DeserialiseWithoutChecks<T>
ApiDeserialiseWithoutChecks(T, j) == Deserialise(T, j)

(***************************************************************************)
(* The values and trees the caller of the codec harness draws from         *)
(***************************************************************************)
SignedRange(w) == (-Pow2(w - 1))..(Pow2(w - 1) - 1)
UnsignedRange(w) == 0..(Pow2(w) - 1)

\* strings a caller may store, the three sentinel strings among them
Strings == {"a", OptionalNullString, VariantNullString, NullPointerString}

\* sequences over S of length at most n
SeqsUpTo(S, n) == UNION {[1..m -> S] : m \in 0..n}

\* std::pair<int, std::string>, configured as Serialiser<std::pair<T1, T2>>::Configure does
PairCfg(T1, T2) ==
    LET made == CreateParameters(NewImplementation,
                    <<[label |-> NoLabel, type |-> T1, custom |-> "none"],
                      [label |-> NoLabel, type |-> T2, custom |-> "none"]>>, 1, <<>>)
    IN SetConstruction(made.cfg, made.keys)
PairT == ClassT(PairCfg(SignedT, StringT))
VariantIBS == VariantT(<<SignedT, BoolT, StringT>>)

Types ==
    {BoolT, SignedT, UnsignedT, StringT,
     VectorT(SignedT), SetT(SignedT), ArrayT(SignedT, 2),
     OptionalT(SignedT), OptionalT(StringT), VariantIBS,
     UniquePtrT(SignedT), UniquePtrT(StringT), PairT}

RECURSIVE Values(_)
Values(T) ==
    CASE T.t = "bool" -> {BoolV(b) : b \in BOOLEAN}
      [] T.t = "signed" -> {IntV(n) : n \in SignedRange(IntBits)}
      [] T.t = "unsigned" -> {IntV(n) : n \in UnsignedRange(IntBits)}
      [] T.t = "string" -> {StrV(x) : x \in Strings}
      [] T.t = "float" -> {FloatV(h) : h \in {0, 3}}
      [] T.t = "range" ->
            IF T.c = "set"
            THEN {SetV(x) : x \in {y \in SUBSET Values(T.e) : Cardinality(y) <= MaxLen}}
            ELSE {VecV(x) : x \in SeqsUpTo(Values(T.e), MaxLen)}
      [] T.t = "array" -> {VecV(x) : x \in [1..T.n -> Values(T.e)]}
      [] T.t = "optional" -> {NullOpt} \cup {SomeV(x) : x \in Values(T.e)}
      [] T.t = "variant" ->
            UNION {{VariantV(i, x) : x \in Values(T.alts[i])} : i \in DOMAIN T.alts}
      [] T.t = "unique_ptr" -> {NullPtr} \cup {PtrV(x) : x \in Values(T.e)}
      [] T.t = "class" ->
            {ObjV(g) : g \in {f \in [DOMAIN T.cfg.variables ->
                                      UNION {Values(T.cfg.variables[key].type) :
                                              key \in DOMAIN T.cfg.variables}] :
                                \A key \in DOMAIN f :
                                    f[key] \in Values(T.cfg.variables[key].type)}}

\* primitive trees: every integer node of the json library's width, some floats
PrimitiveTrees ==
    {JNull} \cup {JBool(b) : b \in BOOLEAN}
    \cup {JInt(n) : n \in SignedRange(JsonBits)}
    \cup {JUInt(n) : n \in UnsignedRange(JsonBits)}
    \cup {JFloat(h) : h \in {-1, 1, 2}}
    \cup {JStr(x) : x \in Strings}

\* elements of the arrays and objects handed in
ElementTrees ==
    {JInt(0), JInt(1), JInt(-1), JInt(Pow2(IntBits - 1)), JUInt(1), JFloat(1),
     JBool(TRUE), JStr("a"), JStr(VariantNullString)}

\* objects over a set of keys, each key present or not
ObjectsOver(keys, elems) == UNION {{JObj(f) : f \in [ks -> elems]} : ks \in SUBSET keys}

Trees ==
    PrimitiveTrees
    \cup {JArr(x) : x \in SeqsUpTo({JInt(0), JInt(1), JInt(-1), JInt(Pow2(IntBits - 1)), JStr("a")}, MaxLen)}
    \cup ObjectsOver(VariantKeys(VariantIBS),
                     {JInt(1), JBool(TRUE), JStr("a"), JStr(VariantNullString)})
    \cup ObjectsOver(DOMAIN PairT.cfg.variables \cup {"extra"},
                     {JInt(0), JStr("a"), JFloat(1)})

(***************************************************************************)
(* State                                                                   *)
(***************************************************************************)
VARIABLES
    \* the codec harness (RunTest / RunFailureTest of the test suite)
    type,           \* the T the calls are instantiated with
    value,          \* the value handed to Serialise, NoVal when a tree was handed in
    serialised,     \* the tree under test, NoVal before the first call
    valid,          \* result of esd::Validate<T>(serialised), NoVal when not called
    deserialised,   \* result of esd::DeserialiseWithoutChecks<T>(serialised)
    checked,        \* result of esd::Deserialise<T>(serialised)
    calls,          \* the Serialiser<T> functions the last esd::Deserialise<T> called
    reSerialised,   \* result of esd::Serialise(deserialised)
    \* one ClassHelper configuration
    helper,         \* the internal::Implementation being configured
    configured,     \* Configure() has returned
    json,           \* the tree handed to the configured codec
    jsonValid,      \* "true" / "false" / "throw" from Validate(json), "none" before
    jsonResult,     \* result of Deserialise(json)
    registered,     \* CreateParameter / RegisterVariable calls made so far
    \* shared_ptr handles and Contexts
    objects,        \* every object ever allocated, in allocation order
    documents,      \* the serialised shared_ptr trees the caller holds
    caches,         \* per Context: CacheType of Serialiser<std::shared_ptr<T>>
    decoded,        \* log of the Deserialise calls that returned an instance
    sharedValid,    \* result of the last Validate<std::shared_ptr<T>>
    \* Serialiser<std::byte>
    byteValue,      \* the std::byte handed to Serialise, NoVal when a tree was handed in
    byteTree,       \* the tree under test, NoVal before the first call
    byteValid,      \* result of Validate(byteTree), NoVal when not called
    byteDecoded,    \* result of Deserialise(byteTree)
    \* one PolymorphicSet<BaseType, DerivedTypes...>
    polyCandidates, \* DerivedTypes..., in the order of the parameter pack
    polyValue,      \* the instance handed to Write, NoVal when a tree was handed in
    polyWriter,     \* the DataWriter handed to Write, after Write returned
    polyTree,       \* the tree under test, NoVal before the first call
    polyValid,      \* "true" / "false" / "throw" from ValidatePolymorphic, "none" before
    polyDecoded,    \* result of DeserialisePolymorphic(polyTree)
    \* one internal::Implementation and the steps its calls perform
    stepHelper,     \* the Implementation, as Configure() left it
    stepConfigured, \* Configure() has run
    stepCalls,      \* Serialise and Deserialise calls that have returned
    stepHooks,      \* runs of the post-serialise and post-deserialise actions
    stepCall,       \* the last call: its steps, in the order they started
    \* one DataReader
    reader,         \* format_, capacity_, remainingReads_, dataStore_ and the errors logged
    readResult,     \* what the last ReadRange returned, NoVal before
    \* one DataWriter
    writer,         \* format_, capacity_, remainingWrites_, dataStore_ and the errors logged
    writerCall,     \* the member function called last
    \* ContextStateLifetime and internal::CurrentContext
    lifetimes,      \* the ContextStateLifetime objects alive
    count,          \* ContextStateLifetime::count
    caches_,        \* the keys of CurrentContext::caches_
    resets          \* calls of CurrentContext::Reset so far

harnessVars == <<type, value, serialised, valid, deserialised, checked, calls, reSerialised>>
builderVars == <<helper, configured, json, jsonValid, jsonResult, registered>>
sharedVars == <<objects, documents, caches, decoded, sharedValid>>
byteVars == <<byteValue, byteTree, byteValid, byteDecoded>>
polyVars == <<polyCandidates, polyValue, polyWriter, polyTree, polyValid, polyDecoded>>
stepVars == <<stepHelper, stepConfigured, stepCalls, stepHooks, stepCall>>
readerVars == <<reader, readResult>>
writerVars == <<writer, writerCall>>
lifetimeVars == <<lifetimes, count, caches_, resets>>
laterVars == <<stepVars, readerVars, writerVars, lifetimeVars>>
earlierVars == <<harnessVars, builderVars, sharedVars, byteVars, polyVars>>
vars == <<harnessVars, builderVars, sharedVars, byteVars, polyVars, laterVars>>

(***************************************************************************)
(* Initial state of the ClassHelper configuration and of the shared_ptr    *)
(* world                                                                   *)
(***************************************************************************)
InitBuilder ==
    /\ helper = NewImplementation
    /\ configured = FALSE
    /\ json = NoVal
    /\ jsonValid = "none"
    /\ jsonResult = NoVal
    /\ registered = 0

Contexts == {"c1", "c2"}

InitShared ==
    /\ objects = <<>>
    /\ documents = <<>>
    /\ caches = [c \in Contexts |-> <<>>]
    /\ decoded = <<>>
    /\ sharedValid = NoVal

InitBytes ==
    /\ byteValue = NoVal
    /\ byteTree = NoVal
    /\ byteValid = NoVal
    /\ byteDecoded = NoVal

InitPoly ==
    /\ polyCandidates = <<>>
    /\ polyValue = NoVal
    /\ polyWriter = NoVal
    /\ polyTree = NoVal
    /\ polyValid = "none"
    /\ polyDecoded = NoVal

(***************************************************************************)
(* The codec harness                                                       *)
(***************************************************************************)
InitHarness ==
    /\ type = BoolT
    /\ value = NoVal
    /\ serialised = NoVal
    /\ valid = NoVal
    /\ deserialised = NoVal
    /\ checked = NoVal
    /\ calls = <<>>
    /\ reSerialised = NoVal

\* auto serialised = esd::Serialise(value);
CallSerialise ==
    \E T \in Types : \E v \in Values(T) :
        /\ serialised = NoVal
        /\ type' = T
        /\ value' = v
        /\ serialised' = Serialise(T, v)
        /\ valid' = NoVal
        /\ deserialised' = NoVal
        /\ checked' = NoVal
        /\ calls' = <<>>
        /\ reSerialised' = NoVal
        /\ UNCHANGED <<builderVars, sharedVars, byteVars, polyVars, laterVars>>

\* a tree that did not come from Serialise (RunFailureTest, trees edited offline)
SupplyTree ==
    \E T \in Types : \E j \in Trees :
        /\ serialised = NoVal
        /\ type' = T
        /\ value' = NoVal
        /\ serialised' = j
        /\ valid' = NoVal
        /\ deserialised' = NoVal
        /\ checked' = NoVal
        /\ calls' = <<>>
        /\ reSerialised' = NoVal
        /\ UNCHANGED <<builderVars, sharedVars, byteVars, polyVars, laterVars>>

\* esd::Validate<T>(serialised)
CallValidate ==
    /\ serialised # NoVal
    /\ valid = NoVal
    /\ valid' = BoolV(Validate(type, serialised))
    /\ UNCHANGED <<type, value, serialised, deserialised, checked, calls, reSerialised>>
    /\ UNCHANGED <<builderVars, sharedVars, byteVars, polyVars, laterVars>>

\* esd::DeserialiseWithoutChecks<T>(serialised)
CallDeserialiseWithoutChecks ==
    /\ serialised # NoVal
    /\ deserialised = NoVal
    /\ deserialised' = ApiDeserialiseWithoutChecks(type, serialised)
    /\ UNCHANGED <<type, value, serialised, valid, checked, calls, reSerialised>>
    /\ UNCHANGED <<builderVars, sharedVars, byteVars, polyVars, laterVars>>

\* esd::Deserialise<T>(serialised)
CallDeserialise ==
    /\ serialised # NoVal
    /\ checked = NoVal
    /\ checked' = ApiDeserialise(type, serialised)
    /\ calls' = ApiDeserialiseCalls(type, serialised)
    /\ UNCHANGED <<type, value, serialised, valid, deserialised, reSerialised>>
    /\ UNCHANGED <<builderVars, sharedVars, byteVars, polyVars, laterVars>>

\* auto reSerialised = esd::Serialise(deserialised);
CallReSerialise ==
    /\ deserialised \notin {NoVal, Throw}
    /\ reSerialised = NoVal
    /\ reSerialised' = Serialise(type, deserialised)
    /\ UNCHANGED <<type, value, serialised, valid, deserialised, checked, calls>>
    /\ UNCHANGED <<builderVars, sharedVars, byteVars, polyVars, laterVars>>

\* the test case ends and its locals go out of scope
EndTest ==
    /\ serialised # NoVal
    /\ type' = BoolT
    /\ value' = NoVal
    /\ serialised' = NoVal
    /\ valid' = NoVal
    /\ deserialised' = NoVal
    /\ checked' = NoVal
    /\ calls' = <<>>
    /\ reSerialised' = NoVal
    /\ UNCHANGED <<builderVars, sharedVars, byteVars, polyVars, laterVars>>

\* no call has been made on the Implementation
NoCall == [op |-> "none", trace |-> <<>>, threw |-> FALSE, returned |-> 0]

InitSteps ==
    /\ stepHelper = NewImplementation
    /\ stepConfigured = FALSE
    /\ stepCalls = [Serialise |-> 0, Deserialise |-> 0]
    /\ stepHooks = [postSerialise |-> 0, postDeserialise |-> 0]
    /\ stepCall = NoCall

\* DataReader::DataReader
NewReader(dataStore) ==
    [format |-> "Unset", capacity |-> 0, remainingReads |-> 0,
     dataStore |-> dataStore, errors |-> <<>>]

InitReader ==
    /\ reader = NewReader(JNull)
    /\ readResult = NoVal

\* DataWriter::DataWriter
InitWriter ==
    /\ writer = [format |-> "Unset", capacity |-> 0, remainingWrites |-> 0,
                 dataStore |-> JNull, errors |-> <<>>]
    /\ writerCall = "Create"

\* static inline int count = 0; static inline ... caches_ {}
InitLifetime ==
    /\ lifetimes = {}
    /\ count = 0
    /\ caches_ = {}
    /\ resets = 0

InitLater == InitSteps /\ InitReader /\ InitWriter /\ InitLifetime

Init == InitHarness /\ InitBuilder /\ InitShared /\ InitBytes /\ InitPoly /\ InitLater

Next ==
    \/ CallSerialise
    \/ SupplyTree
    \/ CallValidate
    \/ CallDeserialiseWithoutChecks
    \/ CallDeserialise
    \/ CallReSerialise
    \/ EndTest

Spec == Init /\ [][Next]_vars

(***************************************************************************)
(* One ClassHelper<T>: Configure() registers with the helper, afterwards   *)
(* the codec validates, serialises and deserialises                        *)
(***************************************************************************)
\* most keys one configuration registers
MaxVariables == 2

Labels == {NoLabel, Label("min"), Label("param0")}
MemberTypes == {SignedT, StringT}
Customs(T) == IF T = SignedT THEN {"none", "positive"} ELSE {"none"}

\* the parameter lists handed to SetConstruction / AddInitialisationCall
ParameterLists ==
    UNION {[1..n -> {[label |-> l, type |-> T, custom |-> "none"] :
                        l \in Labels, T \in MemberTypes}] : n \in 1..MaxVariables}

\* the joint validators a parameter list admits (the validator must be
\* invocable with the parameter types)
Predicates(params) ==
    IF Len(params) = 2 /\ \A i \in DOMAIN params : params[i].type = SignedT
    THEN {"none", "minLeMax"} ELSE {"none"}

Room(n) == Cardinality(DOMAIN helper.variables) + n <= MaxVariables

\* h.RegisterVariable(&T::member, label, customValidator)
RegisterVariable ==
    \E label \in Labels, T \in MemberTypes : \E custom \in Customs(T) :
        /\ ~configured
        /\ Room(1)
        /\ helper' = RegisterVariableInternal(helper, label, T, custom)
        /\ registered' = registered + 1
        /\ UNCHANGED <<configured, json, jsonValid, jsonResult>>
        /\ UNCHANGED <<harnessVars, sharedVars, byteVars, polyVars, laterVars>>

\* h.SetConstruction(h.CreateParameter(...)..., [validator])
CallSetConstruction ==
    \E params \in ParameterLists : \E pred \in Predicates(params) :
        /\ ~configured
        /\ helper.constructor = "default"
        /\ Room(Len(params))
        /\ LET made == CreateParameters(helper, params, 1, <<>>) IN
           helper' = IF pred = "none" THEN SetConstruction(made.cfg, made.keys)
                     ELSE SetConstructionWithValidator(made.cfg, made.keys, pred)
        /\ registered' = registered + Len(params)
        /\ UNCHANGED <<configured, json, jsonValid, jsonResult>>
        /\ UNCHANGED <<harnessVars, sharedVars, byteVars, polyVars, laterVars>>

\* h.AddInitialisationCall(&T::Set, h.CreateParameter(...)..., [validator])
CallAddInitialisationCall ==
    \E params \in ParameterLists : \E pred \in Predicates(params) :
        /\ ~configured
        /\ helper.initialisationCalls = <<>>
        /\ Room(Len(params))
        /\ LET made == CreateParameters(helper, params, 1, <<>>) IN
           helper' = IF pred = "none" THEN AddInitialisationCall(made.cfg, made.keys)
                     ELSE AddInitialisationCallWithValidator(made.cfg, made.keys, pred)
        /\ registered' = registered + Len(params)
        /\ UNCHANGED <<configured, json, jsonValid, jsonResult>>
        /\ UNCHANGED <<harnessVars, sharedVars, byteVars, polyVars, laterVars>>

\* Configure() returns
EndConfigure ==
    /\ ~configured
    /\ configured' = TRUE
    /\ UNCHANGED <<helper, json, jsonValid, jsonResult, registered>>
    /\ UNCHANGED <<harnessVars, sharedVars, byteVars, polyVars, laterVars>>

\* the trees handed to the configured codec: every kind, and objects with
\* any subset of the registered keys and a key that is not registered
BuilderTrees ==
    {JNull, JInt(0), JStr("a"), JArr(<<JInt(0)>>)}
    \cup ObjectsOver(DOMAIN helper.variables \cup {"extra"}, {JInt(0), JInt(1), JStr("a")})

SupplyJson ==
    \E j \in BuilderTrees :
        /\ configured
        /\ json = NoVal
        /\ json' = j
        /\ UNCHANGED <<helper, configured, jsonValid, jsonResult, registered>>
        /\ UNCHANGED <<harnessVars, sharedVars, byteVars, polyVars, laterVars>>

\* json = esd::Serialise(instance)
SerialiseInstance ==
    \E v \in Values(ClassT(helper)) :
        /\ configured
        /\ json = NoVal
        /\ json' = ImplSerialise(helper, v)
        /\ UNCHANGED <<helper, configured, jsonValid, jsonResult, registered>>
        /\ UNCHANGED <<harnessVars, sharedVars, byteVars, polyVars, laterVars>>

\* esd::Validate<T>(json)
ValidateJson ==
    /\ json # NoVal
    /\ jsonValid = "none"
    /\ jsonValid' = ImplValidate(helper, json)
    /\ UNCHANGED <<helper, configured, json, jsonResult, registered>>
    /\ UNCHANGED <<harnessVars, sharedVars, byteVars, polyVars, laterVars>>

\* esd::DeserialiseWithoutChecks<T>(json)
DeserialiseJson ==
    /\ json # NoVal
    /\ jsonResult = NoVal
    /\ jsonResult' = ImplDeserialise(helper, json)
    /\ UNCHANGED <<helper, configured, json, jsonValid, registered>>
    /\ UNCHANGED <<harnessVars, sharedVars, byteVars, polyVars, laterVars>>

\* the tree and the results go out of scope
DiscardJson ==
    /\ json # NoVal
    /\ json' = NoVal
    /\ jsonValid' = "none"
    /\ jsonResult' = NoVal
    /\ UNCHANGED <<helper, configured, registered>>
    /\ UNCHANGED <<harnessVars, sharedVars, byteVars, polyVars, laterVars>>

NextBuilder ==
    \/ RegisterVariable
    \/ CallSetConstruction
    \/ CallAddInitialisationCall
    \/ EndConfigure
    \/ SupplyJson
    \/ SerialiseInstance
    \/ ValidateJson
    \/ DeserialiseJson
    \/ DiscardJson

SpecBuilder == Init /\ [][NextBuilder]_vars

(***************************************************************************)
(* Serialiser<std::shared_ptr<int>> and the Contexts.                      *)
(* objects[id] is the id-th object ever allocated: its address, its value  *)
(* and the number of shared_ptr handles the caller holds on it.  A cache   *)
(* is CacheType: address -> dump of the wrapped tree -> the weak_ptr, kept *)
(* as the id it refers to (NullId for an empty one) and whether the entry  *)
(* owns the object.                                                        *)
(***************************************************************************)
\* most objects ever allocated
MaxObjects == 3
\* most trees the caller keeps
MaxDocuments == 2
\* most Deserialise calls logged
MaxDecoded == 3
\* number of addresses the allocator hands out
NumAddresses == 2

Addresses == 1..NumAddresses
SharedValues == {IntV(0), IntV(1)}
NullId == 0
NullAddress == 0
Private == "private"

WrappedTypeKey == "wrappedType"
UniqueIdentifierKey == "ptr"

\* json::dump() of the wrapped trees that occur: numbers and strings
Dump(j) ==
    CASE Kind(j) \in {"number_integer", "number_unsigned"} -> ToString(Val(j))
      [] Kind(j) = "string" -> "\"" \o Val(j) \o "\""
      [] Kind(j) = "boolean" -> IF Val(j) THEN "true" ELSE "false"
      [] OTHER -> "null"

\* every (context, address, dump) that has a cache entry
CacheEntries ==
    UNION {UNION {{<<c, p, key>> : key \in DOMAIN caches[c][p]} : p \in DOMAIN caches[c]} :
            c \in Contexts}

\* use_count(): the caller's handles and the owning cache entries
StrongCount(id) ==
    objects[id].owners
    + Cardinality({e \in CacheEntries :
                    /\ caches[e[1]][e[2]][e[3]].target = id
                    /\ caches[e[1]][e[2]][e[3]].owning})

Alive(id) == id \in DOMAIN objects /\ StrongCount(id) > 0
LiveObjects == {id \in DOMAIN objects : Alive(id)}
FreeAddresses == {a \in Addresses : \A id \in LiveObjects : objects[id].addr # a}

\* Serialiser<std::shared_ptr<T>>::Validate
ValidateSharedPtr(j) ==
    /\ Contains(j, WrappedTypeKey)
    /\ Contains(j, UniqueIdentifierKey)
    /\ ValidateUniquePtr(UniquePtrT(SignedT), Val(j)[WrappedTypeKey])

\* Serialiser<std::shared_ptr<T>>::Serialise of a handle to the object at
\* address a holding v (NullAddress: the handle is empty)
SerialiseSharedPtr(a, v) ==
    JObj((UniqueIdentifierKey :> JUInt(a)) @@
         (WrappedTypeKey :> SerialiseUniquePtr(UniquePtrT(SignedT),
                                IF a = NullAddress THEN NullPtr ELSE PtrV(v))))

\* a lookup that searches the caches of every Context
CheckCacheAnyContext(cache, j) ==
    LET pointerValue == Val(Val(j)[UniqueIdentifierKey])
        key == Dump(Val(j)[WrappedTypeKey])
        found == {c \in Contexts :
                    /\ pointerValue \in DOMAIN caches[c]
                    /\ key \in DOMAIN caches[c][pointerValue]
                    /\ Alive(caches[c][pointerValue][key].target)}
    IN IF found = {} THEN NullId
       ELSE caches[CHOOSE c \in found : TRUE][pointerValue][key].target

\* a lookup that returns the stored pointer without locking it
CheckCacheNoLock(cache, j) ==
    LET pointerValue == Val(Val(j)[UniqueIdentifierKey])
        key == Dump(Val(j)[WrappedTypeKey])
    IN IF pointerValue \in DOMAIN cache /\ key \in DOMAIN cache[pointerValue]
       THEN cache[pointerValue][key].target
       ELSE NullId

\* a lookup by the address alone
CheckCacheTagOnly(cache, j) ==
    LET pointerValue == Val(Val(j)[UniqueIdentifierKey])
        live == IF pointerValue \in DOMAIN cache
                THEN {key \in DOMAIN cache[pointerValue] :
                        Alive(cache[pointerValue][key].target)}
                ELSE {}
    IN IF live = {} THEN NullId
       ELSE cache[pointerValue][CHOOSE key \in live : TRUE].target

\* a lookup that finds nothing
CheckCacheNeverHits(cache, j) == NullId

\* CheckCache: the id the weak_ptr locks to, NullId for nullptr
CheckCache(cache, j) ==
    LET pointerValue == Val(Val(j)[UniqueIdentifierKey])
        key == Dump(Val(j)[WrappedTypeKey])
    IN IF /\ pointerValue \in DOMAIN cache
          /\ key \in DOMAIN cache[pointerValue]
          /\ Alive(cache[pointerValue][key].target)
       THEN cache[pointerValue][key].target
       ELSE NullId

\* an insertion that stores a shared_ptr in the cache
AddToCacheOwning(cache, j, id) ==
    LET pointerValue == Val(Val(j)[UniqueIdentifierKey])
        key == Dump(Val(j)[WrappedTypeKey])
        variations == IF pointerValue \in DOMAIN cache THEN cache[pointerValue] ELSE <<>>
    IN (pointerValue :> ((key :> [target |-> id, owning |-> TRUE]) @@ variations)) @@ cache

\* AddToCache: cachedPointers[pointerValue].variations[dump] = toCache (a weak_ptr)
AddToCache(cache, j, id) ==
    LET pointerValue == Val(Val(j)[UniqueIdentifierKey])
        key == Dump(Val(j)[WrappedTypeKey])
        variations == IF pointerValue \in DOMAIN cache THEN cache[pointerValue] ELSE <<>>
    IN (pointerValue :> ((key :> [target |-> id, owning |-> FALSE]) @@ variations)) @@ cache

\* auto p = std::make_shared<int>(v): the allocator picks any free address
MakeShared ==
    \E a \in FreeAddresses, v \in SharedValues :
        /\ Len(objects) < MaxObjects
        /\ objects' = Append(objects, [addr |-> a, value |-> v, owners |-> 1])
        /\ UNCHANGED <<documents, caches, decoded, sharedValid>>
        /\ UNCHANGED <<harnessVars, builderVars, byteVars, polyVars, laterVars>>

\* a handle goes out of scope; the object is destroyed with its last owner
ReleaseHandle ==
    \E id \in DOMAIN objects :
        /\ objects[id].owners > 0
        /\ objects' = [objects EXCEPT ![id].owners = @ - 1]
        /\ UNCHANGED <<documents, caches, decoded, sharedValid>>
        /\ UNCHANGED <<harnessVars, builderVars, byteVars, polyVars, laterVars>>

\* esd::Serialise(c, p) or esd::Serialise(p): Serialise does not use the Context
SerialiseHandle ==
    \E id \in DOMAIN objects :
        /\ objects[id].owners > 0
        /\ Len(documents) < MaxDocuments
        /\ documents' = Append(documents,
                [tree |-> SerialiseSharedPtr(objects[id].addr, objects[id].value),
                 source |-> id])
        /\ UNCHANGED <<objects, caches, decoded, sharedValid>>
        /\ UNCHANGED <<harnessVars, builderVars, byteVars, polyVars, laterVars>>

\* esd::Serialise(std::shared_ptr<int>(nullptr))
SerialiseNullHandle ==
    /\ Len(documents) < MaxDocuments
    /\ documents' = Append(documents,
            [tree |-> SerialiseSharedPtr(NullAddress, NoVal), source |-> NullId])
    /\ UNCHANGED <<objects, caches, decoded, sharedValid>>
    /\ UNCHANGED <<harnessVars, builderVars, byteVars, polyVars, laterVars>>

\* esd::Validate<std::shared_ptr<int>>(c, documents[d]), with or without a Context
ValidateDocument ==
    \E d \in DOMAIN documents :
        /\ sharedValid = NoVal
        /\ sharedValid' = BoolV(ValidateSharedPtr(documents[d].tree))
        /\ UNCHANGED <<objects, documents, caches, decoded>>
        /\ UNCHANGED <<harnessVars, builderVars, byteVars, polyVars, laterVars>>

\* Serialiser<std::shared_ptr<T>>::Deserialise of documents[d] with the cache
\* of the Context ctx; the caller keeps the handle returned
DeserialiseSharedPtr(ctx, cache, d) ==
    LET j == documents[d].tree
        ret == CheckCache(cache, j)
        wrapped == DeserialiseUniquePtr(UniquePtrT(SignedT), Val(j)[WrappedTypeKey])
        Entry(id) == [doc |-> d, ctx |-> ctx, obj |-> id, live |-> LiveObjects]
        Cached(id) == IF ctx = Private THEN caches
                      ELSE [caches EXCEPT ![ctx] = AddToCache(cache, j, id)]
    IN IF ret # NullId THEN
            /\ objects' = [objects EXCEPT ![ret].owners = @ + 1]
            /\ caches' = caches
            /\ decoded' = Append(decoded, Entry(ret))
       ELSE IF IsNull(wrapped) THEN
            /\ objects' = objects
            /\ caches' = Cached(NullId)
            /\ decoded' = decoded
       ELSE \E a \in FreeAddresses :
            /\ Len(objects) < MaxObjects
            /\ objects' = Append(objects, [addr |-> a, value |-> Val(wrapped), owners |-> 1])
            /\ caches' = Cached(Len(objects) + 1)
            /\ decoded' = Append(decoded, Entry(Len(objects) + 1))

\* esd::DeserialiseWithoutChecks<std::shared_ptr<int>>(c, documents[d])
DeserialiseWithContext ==
    \E c \in Contexts, d \in DOMAIN documents :
        /\ Len(decoded) < MaxDecoded
        /\ DeserialiseSharedPtr(c, caches[c], d)
        /\ UNCHANGED <<documents, sharedValid>>
        /\ UNCHANGED <<harnessVars, builderVars, byteVars, polyVars, laterVars>>

\* esd::DeserialiseWithoutChecks<std::shared_ptr<int>>(documents[d]): a
\* Context of its own, destroyed when the call returns
DeserialiseWithoutContext ==
    \E d \in DOMAIN documents :
        /\ Len(decoded) < MaxDecoded
        /\ DeserialiseSharedPtr(Private, <<>>, d)
        /\ UNCHANGED <<documents, sharedValid>>
        /\ UNCHANGED <<harnessVars, builderVars, byteVars, polyVars, laterVars>>

NextShared ==
    \/ MakeShared
    \/ ReleaseHandle
    \/ SerialiseHandle
    \/ SerialiseNullHandle
    \/ ValidateDocument
    \/ DeserialiseWithContext
    \/ DeserialiseWithoutContext

SpecShared == Init /\ [][NextShared]_vars

(***************************************************************************)
(* Properties of the codec harness                                         *)
(***************************************************************************)

\* C1: round trip. Whenever a value v of a supported type T was serialised,
\* DeserialiseWithoutChecks<T>(Serialise(v)) equals v and
\* Validate<T>(Serialise(v)) is true.
C1_RoundTrip ==
    value # NoVal =>
        /\ deserialised # NoVal => deserialised = value
        /\ valid # NoVal => valid = BoolV(TRUE)

\* a stored string equal to the codec's own sentinel was serialised and decoded
C1_SentinelCollision ==
    /\ type = OptionalT(StringT)
    /\ value = SomeV(StrV(OptionalNullString))
    /\ deserialised = NullOpt

\* C4 (as amended): the checked Deserialise<T>(t) is empty exactly when
\* Validate<T>(t) is false, otherwise it is what DeserialiseWithoutChecks<T>(t)
\* returns; when it is empty the entry point has called Validate and nothing
\* else, so the only decoding that ran is what Validate itself runs.
C4_CheckedDeserialise ==
    checked # NoVal =>
        /\ valid # NoVal => (checked = Empty <=> valid = BoolV(FALSE))
        /\ (checked # Empty /\ deserialised # NoVal) => checked = deserialised
        /\ checked = Empty => calls = <<"Validate">>
        /\ checked # Empty => calls = <<"Validate", "Deserialise">>

\* the checked entry point returned empty for a tree Validate rejected
C4_Witness ==
    /\ checked = Empty
    /\ valid = BoolV(FALSE)
    /\ deserialised # NoVal
    /\ calls = <<"Validate">>

\* C4 as stated: in addition, when the result is empty no decode step of
\* T's codec has been executed at all.
C4_NoDecodeStep ==
    /\ C4_CheckedDeserialise
    /\ checked = Empty => ~ValidateRunsDeserialise(type, serialised)

\* the types C5 names: integers, sequences, ordered sets, optionals, variants, aggregates
IdempotenceTypes == {T \in Types : T.t \in {"signed", "unsigned", "range", "optional", "variant", "class"}}

\* C5: encode idempotence. For every tree t with Validate<T>(t) true,
\* whether or not Serialise produced it, Serialise(Deserialise(t)) equals t.
C5_Idempotence ==
    (/\ type \in IdempotenceTypes
     /\ valid = BoolV(TRUE)
     /\ reSerialised # NoVal) => JsonEq(reSerialised, serialised)

\* a valid tree of a set whose elements are not in ascending order was re-encoded
C5_UnorderedSet ==
    /\ type = SetT(SignedT)
    /\ serialised = JArr(<<JInt(1), JInt(0)>>)
    /\ valid = BoolV(TRUE)
    /\ reSerialised = JArr(<<JInt(0), JInt(1)>>)

\* the alternatives of the variant tree under test that are not the absent-marker
Present(T, j) ==
    {i \in DOMAIN T.alts : ~JsonEq(Val(j)[TypeNameStr(T.alts[i])], JStr(VariantNullString))}

\* C10: tagged-union exclusivity. Validate of a variant codec is false for
\* an object with zero or with more than one alternative present, and true
\* when exactly one alternative holds a valid value and the rest the absent-marker.
C10_Exclusivity ==
    (/\ type.t = "variant"
     /\ valid # NoVal
     /\ Kind(serialised) = "object"
     /\ DOMAIN Val(serialised) = VariantKeys(type)) =>
        /\ Cardinality(Present(type, serialised)) # 1 => valid = BoolV(FALSE)
        /\ (\E i \in DOMAIN type.alts :
                /\ Present(type, serialised) = {i}
                /\ Validate(type.alts[i], Val(serialised)[TypeNameStr(type.alts[i])]))
            => valid = BoolV(TRUE)

\* Validate accepted a variant tree in which every alternative is the absent-marker
C10_NonePresent ==
    /\ type.t = "variant"
    /\ Kind(serialised) = "object"
    /\ DOMAIN Val(serialised) = VariantKeys(type)
    /\ Present(type, serialised) = {}
    /\ valid = BoolV(TRUE)

(***************************************************************************)
(* Properties of a ClassHelper configuration                               *)
(***************************************************************************)

\* C2: Validate soundness of a Builder-generated codec. For every tree t,
\* if Validate(t) returned true then Deserialise(t) does not fail.
C2_ValidateSoundness ==
    (jsonValid = "true" /\ jsonResult # NoVal) => jsonResult # Throw

\* Validate accepted an object that lacks a registered key, Deserialise threw
C2_MissingKey ==
    /\ jsonValid = "true"
    /\ \E key \in DOMAIN helper.variables : ~Contains(json, key)
    /\ jsonResult = Throw

\* C3: Validate of a Builder-generated codec never throws. For every tree,
\* of any kind and with any subset of the keys, Validate returns true or
\* false, also when a joint validator is registered and one of its keys is
\* missing.
C3_ValidateNeverThrows == jsonValid \in {"none", "true", "false"}

\* a joint validator is registered, the tree omits a key it reads, and the
\* exception of at() left Validate
C3_JointValidatorThrows ==
    /\ helper.validators # <<>>
    /\ Kind(json) = "object"
    /\ \E i \in DOMAIN helper.validators : \E a \in DOMAIN helper.validators[i].keys :
            ~Contains(json, helper.validators[i].keys[a])
    /\ jsonValid = "throw"

(***************************************************************************)
(* Properties of the shared_ptr codec                                      *)
(***************************************************************************)
Source(i) == documents[decoded[i].doc].source

\* C6: within one Context, two encodings of handles to the same shared
\* object, decoded one after the other while the first decoded handle is
\* still held, yield one and the same new instance, distinct from the
\* original object.
C6_SharingWithinSession ==
    \A i, n \in DOMAIN decoded :
        (/\ i < n
         /\ decoded[i].ctx = decoded[n].ctx
         /\ decoded[i].ctx # Private
         /\ Source(i) = Source(n)
         /\ Source(i) # NullId
         /\ decoded[i].obj \in decoded[n].live) =>
            /\ decoded[n].obj = decoded[i].obj
            /\ decoded[i].obj # Source(i)

\* the tree of an object that is itself a cached decoded instance was
\* decoded in that Context, and the decode returned the object itself
C6_ReturnsOriginal ==
    \E i, n \in DOMAIN decoded :
        /\ i < n
        /\ decoded[i].ctx = decoded[n].ctx
        /\ decoded[i].ctx # Private
        /\ Source(i) = Source(n)
        /\ decoded[i].obj \in decoded[n].live
        /\ decoded[n].obj = decoded[i].obj
        /\ decoded[i].obj = Source(i)

\* C7: within one Context, for any sequence of creations, encodes, releases
\* and decodes, two handles that referred to different objects holding equal
\* values never decode to the same instance.
C7_NoMerging ==
    \A i, n \in DOMAIN decoded :
        (/\ decoded[i].ctx = decoded[n].ctx
         /\ decoded[i].ctx # Private
         /\ Source(i) # NullId
         /\ Source(n) # NullId
         /\ Source(i) # Source(n)
         /\ objects[Source(i)].value = objects[Source(n)].value) =>
            decoded[i].obj # decoded[n].obj

\* the second object was allocated at the address of the first, released,
\* one, and the two trees decoded into one instance
C7_AddressReuse ==
    \E i, n \in DOMAIN decoded :
        /\ Source(i) # NullId
        /\ Source(n) # NullId
        /\ Source(i) # Source(n)
        /\ objects[Source(i)].addr = objects[Source(n)].addr
        /\ decoded[i].ctx = decoded[n].ctx
        /\ decoded[i].obj = decoded[n].obj

\* C8: sessions are isolated. Two decodes that use different Contexts, or
\* the context-less overload (a private Context per call), never return the
\* same instance: an entry cached in one Context is not returned through another.
C8_SessionsIsolated ==
    \A i, n \in DOMAIN decoded :
        (/\ i < n
         /\ decoded[i].ctx # decoded[n].ctx \/ decoded[i].ctx = Private
         /\ decoded[i].obj # NullId) =>
            decoded[n].obj # decoded[i].obj

\* one tree was decoded through two sessions while the first instance was still held
C8_Witness ==
    \E i, n \in DOMAIN decoded :
        /\ i < n
        /\ decoded[i].doc = decoded[n].doc
        /\ decoded[i].ctx # decoded[n].ctx \/ decoded[i].ctx = Private
        /\ decoded[i].obj \in decoded[n].live
        /\ decoded[i].obj # NullId
        /\ decoded[n].obj # decoded[i].obj

\* C9: the cache never extends a lifetime. Every cache entry is non-owning,
\* so an object whose last caller-held handle is released is destroyed
\* whatever the caches contain; and a Validate or Deserialise that follows in
\* the same Context still succeeds: Validate is true and the decode returns
\* an instance holding the encoded value.
C9_CacheNeverExtendsLifetime ==
    /\ \A e \in CacheEntries : ~caches[e[1]][e[2]][e[3]].owning
    /\ \A id \in DOMAIN objects : objects[id].owners = 0 => ~Alive(id)
    /\ sharedValid \in {NoVal, BoolV(TRUE)}
    /\ \A i \in DOMAIN decoded :
            Source(i) # NullId =>
                /\ decoded[i].obj # NullId
                /\ objects[decoded[i].obj].value = objects[Source(i)].value

\* a decoded instance was released while its cache entry remained, and the
\* same tree was then validated and decoded again in that Context
C9_Witness ==
    \E i, n \in DOMAIN decoded :
        /\ i < n
        /\ decoded[i].doc = decoded[n].doc
        /\ decoded[i].ctx = decoded[n].ctx
        /\ decoded[i].ctx # Private
        /\ decoded[i].obj # NullId
        /\ decoded[i].obj \notin decoded[n].live
        /\ objects[Source(i)].owners = 0
        /\ sharedValid = BoolV(TRUE)
        /\ decoded[n].obj \notin {NullId, decoded[i].obj}

(***************************************************************************)
(* Properties of the optional and variant codecs                           *)
(***************************************************************************)

\* C11: presence is preserved by the optional codec. For every inner type T
\* (string included) and every optional value o that was serialised,
\* decoding the tree yields an optional that is engaged exactly when o is:
\* no encoding of an inner value equals the absent sentinel.
C11_PresencePreserved ==
    (/\ type.t = "optional"
     /\ value # NoVal
     /\ deserialised # NoVal) =>
        /\ deserialised # Throw
        /\ Has(deserialised) = Has(value)

\* an engaged optional whose inner value encodes to the sentinel string came
\* back disengaged
C11_PresentDecodedAbsent ==
    /\ type.t = "optional"
    /\ value # NoVal
    /\ Has(value)
    /\ JsonEq(Serialise(type.e, Val(value)), JStr(OptionalNullString))
    /\ deserialised # NoVal
    /\ deserialised # Throw
    /\ ~Has(deserialised)

\* C12: Serialise of a variant over N alternatives yields, for every held
\* value, an object with exactly N keys, the alternatives' type names; the
\* held alternative's key maps to the encoding of the held value and every
\* other key maps to the absent-marker.
C12_VariantShape ==
    (/\ type.t = "variant"
     /\ value # NoVal
     /\ serialised # NoVal) =>
        /\ Kind(serialised) = "object"
        /\ DOMAIN Val(serialised) = VariantKeys(type)
        /\ Cardinality(DOMAIN Val(serialised)) = Len(type.alts)
        /\ \A i \in DOMAIN type.alts :
                LET node == Val(serialised)[TypeNameStr(type.alts[i])] IN
                IF i = Index(value)
                THEN node = Serialise(type.alts[i], Val(value))
                ELSE node = JStr(VariantNullString)

\* a variant holding its second alternative was serialised
C12_Witness ==
    /\ type = VariantIBS
    /\ value = VariantV(2, BoolV(TRUE))
    /\ Kind(serialised) = "object"
    /\ Cardinality(DOMAIN Val(serialised)) = 3
    /\ Val(serialised)["bool"] = JBool(TRUE)
    /\ Val(serialised)["int"] = JStr(VariantNullString)

(***************************************************************************)
(* Further properties of a ClassHelper configuration                       *)
(***************************************************************************)

\* C13: Validate of a Builder-generated codec returns false for every tree
\* that is not an object, for every object with a key that is not
\* registered, and for every object in which the value of a registered key
\* fails its individual validator (the type's Validate or the custom
\* validator).
C13_ValidateRejects ==
    jsonValid # "none" =>
        ((\/ Kind(json) # "object"
          \/ \E key \in DOMAIN Val(json) : key \notin DOMAIN helper.variables
          \/ \E key \in DOMAIN Val(json) :
                LET variable == helper.variables[key] IN
                \/ ~Validate(variable.type, Val(json)[key])
                \/ /\ variable.custom # "none"
                   /\ ~CustomOk(variable.custom, Deserialise(variable.type, Val(json)[key])))
         => jsonValid = "false")

\* an object with registered keys only, each of the right type, was rejected
\* because one value fails its custom validator
C13_CustomValidatorFails ==
    /\ jsonValid = "false"
    /\ Kind(json) = "object"
    /\ DOMAIN Val(json) \subseteq DOMAIN helper.variables
    /\ \A key \in DOMAIN Val(json) : Validate(helper.variables[key].type, Val(json)[key])
    /\ \E key \in DOMAIN Val(json) :
            /\ helper.variables[key].custom # "none"
            /\ ~CustomOk(helper.variables[key].custom,
                         Deserialise(helper.variables[key].type, Val(json)[key]))

\* the trees C14 is about: objects with registered keys only, every key a
\* joint validator reads among them, every value passing its own validator
IndividuallyValid ==
    /\ Kind(json) = "object"
    /\ DOMAIN Val(json) \subseteq DOMAIN helper.variables
    /\ \A i \in DOMAIN helper.validators : \A a \in DOMAIN helper.validators[i].keys :
            Contains(json, helper.validators[i].keys[a])
    /\ \A key \in DOMAIN Val(json) : VariableValid(helper.variables[key], Val(json)[key])

\* what the registered joint validators say about the parameter values of the tree
JointlyValid ==
    \A i \in DOMAIN helper.validators :
        JointOk(helper.validators[i].pred, ReadKeys(helper, json, helper.validators[i].keys))

ParameterKeys ==
    LET RECURSIVE Flatten(_)
        Flatten(s) == IF s = <<>> THEN <<>> ELSE Head(s) \o Flatten(Tail(s))
    IN helper.constructionVariables \o Flatten(helper.initialisationCalls)

\* C15: after any sequence of CreateParameter and RegisterVariable calls on
\* one configuration, with omitted, distinct and repeated labels (a user
\* label equal to an auto-generated key included), the number of registered
\* keys equals the number of registration calls and the keys handed out for
\* parameters are pairwise distinct registered keys: no registration
\* overwrites another or is dropped.
C15_KeysUnique ==
    /\ Cardinality(DOMAIN helper.variables) = registered
    /\ \A a, b \in DOMAIN ParameterKeys : a # b => ParameterKeys[a] # ParameterKeys[b]
    /\ \A a \in DOMAIN ParameterKeys :
            /\ ParameterKeys[a] \in DOMAIN helper.variables
            /\ ~helper.variables[ParameterKeys[a]].setter

\* a user label equal to the key generated for an earlier unlabelled
\* registration was given a key of its own
C15_Witness ==
    /\ registered = 2
    /\ DOMAIN helper.variables = {"param0", "param00"}

(***************************************************************************)
(* Properties of the unique_ptr and integer codecs                         *)
(***************************************************************************)

\* C18: exclusive-ownership pointers of every wrapped type (string
\* included). A null handle encodes to the null-marker, Validate accepts the
\* null-marker, Deserialise of the null-marker returns a null handle, and
\* the encoding of a non-null handle never decodes to a null handle.
C18_NullHandle ==
    type.t = "unique_ptr" =>
        /\ (value # NoVal /\ IsNull(value)) => serialised = JStr(NullPointerString)
        /\ (JsonEq(serialised, JStr(NullPointerString)) /\ valid # NoVal) => valid = BoolV(TRUE)
        /\ (JsonEq(serialised, JStr(NullPointerString)) /\ deserialised # NoVal) =>
                deserialised = NullPtr
        /\ (value # NoVal /\ ~IsNull(value) /\ deserialised # NoVal) => deserialised # NullPtr

\* a non-null unique_ptr whose pointee encodes to the null-marker came back null
C18_NonNullDecodedNull ==
    /\ type.t = "unique_ptr"
    /\ value # NoVal
    /\ ~IsNull(value)
    /\ JsonEq(Serialise(type.e, Val(value)), JStr(NullPointerString))
    /\ deserialised = NullPtr

\* the numbers an integer type T of IntBits bits represents
Representable(T) ==
    IF T.t = "signed" THEN SignedRange(IntBits) ELSE UnsignedRange(IntBits)

\* the node kinds that match an integer type T: MatchType lets an unsigned
\* node stand for a signed integer
MatchingKinds(T) ==
    IF T.t = "signed" THEN {"number_integer", "number_unsigned"} ELSE {"number_unsigned"}

\* C19: for an integer type T no wider than the tree's integer width,
\* Validate<T>(t) is true exactly when t is a number node of the matching
\* kind whose numeric value T represents; max(T)+1, min(T)-1 and every
\* negative number for an unsigned T are rejected.
C19_IntegerValidate ==
    (type.t \in {"signed", "unsigned"} /\ valid # NoVal) =>
        valid = BoolV(/\ Kind(serialised) \in MatchingKinds(type)
                      /\ Val(serialised) \in Representable(type))

\* Validate<signed T> accepted an unsigned node whose value T does not
\* represent: the largest unsigned value wraps to -1 on both sides of the comparison
C19_WrappedUnsigned ==
    /\ type = SignedT
    /\ serialised = JUInt(Pow2(JsonBits) - 1)
    /\ Val(serialised) \notin Representable(type)
    /\ valid = BoolV(TRUE)

(***************************************************************************)
(* Serialiser<std::byte> (StdLibSupport.h).  The string of a string node   *)
(* is kept here as its sequence of characters.                             *)
(***************************************************************************)
\* longest string handed to the byte codec
MaxText == 5

JText(chars) == <<"string", chars>>

\* the digits std::hex writes, by value
HexDigits == <<"0", "1", "2", "3", "4", "5", "6", "7", "8", "9", "a", "b", "c", "d", "e", "f">>
IsHexDigit(c) == \E i \in DOMAIN HexDigits : HexDigits[i] = c
DigitValue(c) == (CHOOSE i \in DOMAIN HexDigits : HexDigits[i] = c) - 1

\* std::string::starts_with
StartsWith(chars, prefix) ==
    /\ Len(chars) >= Len(prefix)
    /\ \A i \in DOMAIN prefix : chars[i] = prefix[i]

\* byteStringStream >> std::hex >> deserialised: an optional 0x, then the
\* hexadecimal digits up to the first other character; 0 when there is none
ParseHex(chars) ==
    LET rest == IF StartsWith(chars, <<"0", "x">>) THEN SubSeq(chars, 3, Len(chars)) ELSE chars
        n == CHOOSE k \in 0..Len(rest) :
                /\ \A i \in 1..k : IsHexDigit(rest[i])
                /\ k < Len(rest) => ~IsHexDigit(rest[k + 1])
        RECURSIVE Value(_)
        Value(k) == IF k = 0 THEN 0 ELSE 16 * Value(k - 1) + DigitValue(rest[k])
    IN Value(n)

ValidateByte(j) ==
    /\ Kind(j) = "string"
    /\ Len(Val(j)) = 4
    /\ StartsWith(Val(j), <<"0", "x">>)

\* "0x" << std::hex << std::setfill('0') << std::setw(2) << valueAsWord
SerialiseByte(v) ==
    JText(<<"0", "x", HexDigits[(Val(v) \div 16) + 1], HexDigits[(Val(v) % 16) + 1]>>)

\* get<std::string>() throws on a node that is not a string
DeserialiseByte(j) ==
    IF Kind(j) # "string" THEN Throw ELSE ByteV(ParseHex(Val(j)) % 256)

\* the characters and trees handed to the byte codec
TextChars == {"0", "1", "f", "x", "z"}
ByteTrees ==
    {JNull, JBool(FALSE), JUInt(0), JInt(-1)}
    \cup {JText(chars) : chars \in SeqsUpTo(TextChars, MaxText)}

\* auto serialised = esd::Serialise(value);
CallSerialiseByte ==
    \E n \in 0..255 :
        /\ byteTree = NoVal
        /\ byteValue' = ByteV(n)
        /\ byteTree' = SerialiseByte(ByteV(n))
        /\ UNCHANGED <<byteValid, byteDecoded>>
        /\ UNCHANGED <<harnessVars, builderVars, sharedVars, polyVars, laterVars>>

\* a tree that did not come from Serialise (RunFailureTest)
SupplyByteTree ==
    \E j \in ByteTrees :
        /\ byteTree = NoVal
        /\ byteTree' = j
        /\ UNCHANGED <<byteValue, byteValid, byteDecoded>>
        /\ UNCHANGED <<harnessVars, builderVars, sharedVars, polyVars, laterVars>>

\* esd::Validate<std::byte>(serialised)
CallValidateByte ==
    /\ byteTree # NoVal
    /\ byteValid = NoVal
    /\ byteValid' = BoolV(ValidateByte(byteTree))
    /\ UNCHANGED <<byteValue, byteTree, byteDecoded>>
    /\ UNCHANGED <<harnessVars, builderVars, sharedVars, polyVars, laterVars>>

\* esd::DeserialiseWithoutChecks<std::byte>(serialised)
CallDeserialiseByte ==
    /\ byteTree # NoVal
    /\ byteDecoded = NoVal
    /\ byteDecoded' = DeserialiseByte(byteTree)
    /\ UNCHANGED <<byteValue, byteTree, byteValid>>
    /\ UNCHANGED <<harnessVars, builderVars, sharedVars, polyVars, laterVars>>

\* the test case ends
EndByteTest ==
    /\ byteTree # NoVal
    /\ byteValue' = NoVal
    /\ byteTree' = NoVal
    /\ byteValid' = NoVal
    /\ byteDecoded' = NoVal
    /\ UNCHANGED <<harnessVars, builderVars, sharedVars, polyVars, laterVars>>

NextBytes ==
    \/ CallSerialiseByte
    \/ SupplyByteTree
    \/ CallValidateByte
    \/ CallDeserialiseByte
    \/ EndByteTest

SpecBytes == Init /\ [][NextBytes]_vars

\* the fixed format of a serialised byte: 0x and two hexadecimal digits
WellFormedByte(j) ==
    /\ Kind(j) = "string"
    /\ Len(Val(j)) = 4
    /\ Val(j)[1] = "0"
    /\ Val(j)[2] = "x"
    /\ IsHexDigit(Val(j)[3])
    /\ IsHexDigit(Val(j)[4])

\* C20: Validate for byte values is true exactly for the strings made of
\* the prefix 0x and exactly two hexadecimal digits, and false for every
\* other tree: other kinds, other lengths, other prefixes, other characters.
C20_ByteFormat ==
    byteValid # NoVal => byteValid = BoolV(WellFormedByte(byteTree))

\* Validate accepted 0x followed by two characters that are no hexadecimal
\* digits; Deserialise reads the byte 0 from it
C20_NonHexAccepted ==
    /\ byteTree = JText(<<"0", "x", "z", "z">>)
    /\ byteValid = BoolV(TRUE)
    /\ byteDecoded = ByteV(0)

(***************************************************************************)
(* PolymorphismHelper (PolymorphismHelper.h) over the class hierarchy of   *)
(* the test suite:                                                         *)
(*   PureVirtualInterface <- BaseTestType <- ChildTestTypeA                *)
(*                                        <- ChildTestTypeB <- GrandChild  *)
(* An instance is its dynamic type and its members, named by the keys the  *)
(* ClassHelper of its type registers for them.                             *)
(***************************************************************************)
Inst(c, members) == <<"instance", c, members>>
RuntimeClass(x) == x[2]

Classes == {"BaseTestType", "ChildTestTypeA", "ChildTestTypeB", "GrandChildTestType"}

\* the direct base class
Parent(c) ==
    CASE c = "BaseTestType" -> "PureVirtualInterface"
      [] c = "ChildTestTypeA" -> "BaseTestType"
      [] c = "ChildTestTypeB" -> "BaseTestType"
      [] c = "GrandChildTestType" -> "ChildTestTypeB"
      [] OTHER -> "none"

\* dynamic_cast<const d*>(&instance of c) != nullptr
RECURSIVE IsA(_, _)
IsA(c, d) == c = d \/ (c \in Classes /\ IsA(Parent(c), d))

\* Serialiser<c>::Configure(): SetConstruction over d_, or over d_ and b_
ClassCfg(c) ==
    LET params == IF c \in {"ChildTestTypeB", "GrandChildTestType"}
                  THEN <<[label |-> NoLabel, type |-> FloatT, custom |-> "none"],
                         [label |-> NoLabel, type |-> BoolT, custom |-> "none"]>>
                  ELSE <<[label |-> NoLabel, type |-> FloatT, custom |-> "none"]>>
        made == CreateParameters(NewImplementation, params, 1, <<>>)
    IN SetConstruction(made.cfg, made.keys)

\* detail::TypeNameStr<c>()
ClassName(c) == c

TypeNameKey == "typeName"
ValueKey == "instance"

\* the DataWriter::Create(context, name, dataStore) of a caller; errors are
\* the messages it has logged in the Context
NewWriter ==
    [format |-> "Unset", capacity |-> 0, remainingWrites |-> 0,
     dataStore |-> JNull, errors |-> <<>>]

WriterLogError(w, error) == [w EXCEPT !.errors = Append(@, error)]

SetFormatToValue(w) ==
    IF w.format # "Unset" THEN WriterLogError(w, "SetFormatToValue")
    ELSE [w EXCEPT !.format = "Value", !.remainingWrites = 1, !.capacity = 1]

\* Serialiser<DummyValueForPolymorphicWriting<c>>::Serialise on the delegate
\* writer: SetFormatToObject, Insert(typeNameKey_, name), Insert(valueKey_, value)
SerialiseDummy(c, x) ==
    JObj((TypeNameKey :> JStr(ClassName(c)))
         @@ (ValueKey :> ImplSerialise(ClassCfg(c), x[3])))

\* DataWriter::Write of a value that requires delegation
WriterWrite(w, c, x) ==
    IF w.format # "Value" THEN WriterLogError(w, "Write: format")
    ELSE IF w.remainingWrites = 0 THEN WriterLogError(w, "Write: repeat")
    ELSE [w EXCEPT !.dataStore = SerialiseDummy(c, x), !.remainingWrites = @ - 1]

\* the first index of a sequence whose element is in matching, 0 when
\* there is none
FirstIndex(s, matching) ==
    IF \E i \in DOMAIN s : s[i] \in matching
    THEN CHOOSE i \in DOMAIN s :
            s[i] \in matching /\ \A a \in 1..(i - 1) : s[a] \notin matching
    ELSE 0

\* a Write that takes the first candidate the value can be cast to
PolyWriteFirstCastable(candidates, w, x) ==
    LET castable == {c \in Classes : IsA(RuntimeClass(x), c)}
        i == FirstIndex(candidates, castable)
    IN IF i = 0 THEN WriterLogError(w, "Unsupported derived type")
       ELSE WriterWrite(w, candidates[i], x)

\* PolymorphicSet::Write: the fold stops at the first candidate whose
\* typeid equals the typeid of the value
PolyWrite(candidates, w, x) ==
    LET sameType == {c \in Classes : c = RuntimeClass(x)}
        i == FirstIndex(candidates, sameType)
    IN IF i = 0 THEN WriterLogError(w, "Unsupported derived type")
       ELSE WriterWrite(w, candidates[i], x)

\* Validate<c>(context, tree) for a candidate c
ValidateCandidate(c, j) == ImplValidate(ClassCfg(c), j)

\* PolymorphicSet::ValidatePolymorphic; the conversion of the discriminator
\* to std::string throws for a node that is not a string
ValidatePolymorphic(candidates, j) ==
    IF ~(Contains(j, TypeNameKey) /\ Contains(j, ValueKey)) THEN "false"
    ELSE IF Kind(Val(j)[TypeNameKey]) # "string" THEN "throw"
    ELSE LET named == {c \in Classes : ClassName(c) = Val(Val(j)[TypeNameKey])}
             i == FirstIndex(candidates, named)
         IN IF i = 0 THEN "false" ELSE ValidateCandidate(candidates[i], Val(j)[ValueKey])

\* PolymorphicSet::DeserialisePolymorphic and, for the candidate it finds,
\* Serialiser<std::unique_ptr<c>>::Deserialise; BaseTestType has a
\* PolymorphismHelper of its own, over the same candidates
RECURSIVE DeserialisePolymorphic(_, _)
DeserialiseCandidate(candidates, c, j) ==
    IF JsonEq(j, JStr(NullPointerString)) THEN NullPtr
    ELSE IF c = "BaseTestType" /\ Contains(j, TypeNameKey)
    THEN DeserialisePolymorphic(candidates, j)
    ELSE LET made == ImplDeserialiseInPlace(ClassCfg(c), j) IN
         IF made = Throw THEN Throw ELSE PtrV(Inst(c, made))

DeserialisePolymorphic(candidates, j) ==
    IF ~Contains(j, TypeNameKey) THEN NullPtr
    ELSE IF Kind(Val(j)[TypeNameKey]) # "string" THEN Throw
    ELSE LET named == {c \in Classes : ClassName(c) = Val(Val(j)[TypeNameKey])}
             i == FirstIndex(candidates, named)
         IN IF i = 0 THEN NullPtr
            ELSE IF ~Contains(j, ValueKey) THEN Throw
            ELSE DeserialiseCandidate(candidates, candidates[i], Val(j)[ValueKey])

\* the parameter packs DerivedTypes...: distinct classes in any order
CandidateLists ==
    {s \in SeqsUpTo(Classes, Cardinality(Classes)) :
        /\ s # <<>>
        /\ \A a, b \in DOMAIN s : a # b => s[a] # s[b]}

Instances == UNION {{Inst(c, v) : v \in Values(ClassT(ClassCfg(c)))} : c \in Classes}

\* the trees handed to the polymorphic codec: any kind, the discriminator and
\* the instance data present or not, the discriminator a registered name,
\* another name or no string
PolyTrees ==
    {JNull, JStr("a"), JStr(NullPointerString)}
    \cup ObjectsOver({"param0"}, {JFloat(3)})
    \cup {JObj((TypeNameKey :> n)) : n \in {JStr("ChildTestTypeB"), JStr("Unknown")}}
    \cup {JObj((TypeNameKey :> n) @@ (ValueKey :> t)) :
            n \in {JStr(c) : c \in Classes} \cup {JStr("Unknown"), JUInt(0), JNull},
            t \in {JStr(NullPointerString), JObj(<<>>), JUInt(1),
                   JObj("param0" :> JFloat(3)),
                   JObj(("param0" :> JFloat(3)) @@ ("param1" :> JBool(TRUE))),
                   JObj(("param0" :> JFloat(3)) @@ ("param1" :> JUInt(1)))}}

\* writer.SetFormatToValue(); PolymorphismHelper<BaseType>::Write(writer, value);
CallWrite ==
    \E candidates \in CandidateLists, x \in Instances :
        /\ polyTree = NoVal
        /\ polyCandidates' = candidates
        /\ polyValue' = x
        /\ polyWriter' = PolyWrite(candidates, SetFormatToValue(NewWriter), x)
        /\ polyTree' = polyWriter'.dataStore
        /\ UNCHANGED <<polyValid, polyDecoded>>
        /\ UNCHANGED <<harnessVars, builderVars, sharedVars, byteVars, laterVars>>

\* a tree that did not come from Write
SupplyPolyTree ==
    \E candidates \in CandidateLists, j \in PolyTrees :
        /\ polyTree = NoVal
        /\ polyCandidates' = candidates
        /\ polyTree' = j
        /\ UNCHANGED <<polyValue, polyWriter, polyValid, polyDecoded>>
        /\ UNCHANGED <<harnessVars, builderVars, sharedVars, byteVars, laterVars>>

\* PolymorphismHelper<BaseType>::ValidatePolymorphic(context, tree)
CallValidatePolymorphic ==
    /\ polyTree # NoVal
    /\ polyValid = "none"
    /\ polyValid' = ValidatePolymorphic(polyCandidates, polyTree)
    /\ UNCHANGED <<polyCandidates, polyValue, polyWriter, polyTree, polyDecoded>>
    /\ UNCHANGED <<harnessVars, builderVars, sharedVars, byteVars, laterVars>>

\* PolymorphismHelper<BaseType>::DeserialisePolymorphic(context, tree)
CallDeserialisePolymorphic ==
    /\ polyTree # NoVal
    /\ polyDecoded = NoVal
    /\ polyDecoded' = DeserialisePolymorphic(polyCandidates, polyTree)
    /\ UNCHANGED <<polyCandidates, polyValue, polyWriter, polyTree, polyValid>>
    /\ UNCHANGED <<harnessVars, builderVars, sharedVars, byteVars, laterVars>>

\* the test case ends
EndPolyTest ==
    /\ polyTree # NoVal
    /\ polyCandidates' = <<>>
    /\ polyValue' = NoVal
    /\ polyWriter' = NoVal
    /\ polyTree' = NoVal
    /\ polyValid' = "none"
    /\ polyDecoded' = NoVal
    /\ UNCHANGED <<harnessVars, builderVars, sharedVars, byteVars, laterVars>>

NextPoly ==
    \/ CallWrite
    \/ SupplyPolyTree
    \/ CallValidatePolymorphic
    \/ CallDeserialisePolymorphic
    \/ EndPolyTest

SpecPoly == Init /\ [][NextPoly]_vars

(***************************************************************************)
(* C16: a polymorphic write of a value whose runtime type is one of the    *)
(* candidates logs no error and stores an object tagged with the type name *)
(* of exactly that runtime type, holding the value as serialised by that   *)
(* type's own ClassHelper, wherever a base of the runtime type stands in   *)
(* the candidate list.                                                     *)
(***************************************************************************)
Registered(candidates, c) == \E i \in DOMAIN candidates : candidates[i] = c

C16_MostDerivedChosen ==
    (polyValue # NoVal /\ Registered(polyCandidates, RuntimeClass(polyValue)))
        => /\ polyWriter.errors = <<>>
           /\ polyTree = JObj((TypeNameKey :> JStr(ClassName(RuntimeClass(polyValue))))
                              @@ (ValueKey :> ImplSerialise(ClassCfg(RuntimeClass(polyValue)),
                                                            polyValue[3])))

\* a grandchild written through a list that names both of its bases first
C16_BaseListedFirst ==
    /\ polyValue # NoVal
    /\ RuntimeClass(polyValue) = "GrandChildTestType"
    /\ polyCandidates = <<"BaseTestType", "ChildTestTypeB", "GrandChildTestType">>
    /\ Contains(polyTree, TypeNameKey)
    /\ polyTree[2][TypeNameKey] = JStr("GrandChildTestType")

(***************************************************************************)
(* C17: decoding a tree whose discriminator names a candidate, and which   *)
(* ValidatePolymorphic accepts, yields a non-null handle to an instance of *)
(* exactly that candidate; decoding what Write stored yields the value     *)
(* written, dynamic type included; decoding a tree whose discriminator is  *)
(* missing or is not the name of a candidate yields a null handle.         *)
(***************************************************************************)
NamesCandidate(candidates, j) ==
    /\ Contains(j, TypeNameKey)
    /\ Kind(Val(j)[TypeNameKey]) = "string"
    /\ \E i \in DOMAIN candidates : ClassName(candidates[i]) = Val(Val(j)[TypeNameKey])

C17_NamedCandidateDecoded ==
    (/\ polyDecoded # NoVal
     /\ NamesCandidate(polyCandidates, polyTree)
     /\ ValidatePolymorphic(polyCandidates, polyTree) = "true")
        => /\ polyDecoded # Throw
           /\ polyDecoded # NullPtr
           /\ RuntimeClass(Val(polyDecoded)) = Val(Val(polyTree)[TypeNameKey])

C17_DynamicTypePreserved ==
    (/\ polyDecoded # NoVal
     /\ polyValue # NoVal
     /\ Registered(polyCandidates, RuntimeClass(polyValue)))
        => polyDecoded = PtrV(polyValue)

C17_UnnamedDecodedNull ==
    (polyDecoded # NoVal /\ ~NamesCandidate(polyCandidates, polyTree))
        => polyDecoded = NullPtr

C17_PolymorphicDecode ==
    /\ C17_NamedCandidateDecoded
    /\ C17_DynamicTypePreserved
    /\ C17_UnnamedDecodedNull

\* a discriminator that is a number names no candidate, and decoding throws
C17_NonStringDiscriminatorThrows ==
    /\ polyTree # NoVal
    /\ Contains(polyTree, TypeNameKey)
    /\ Val(polyTree)[TypeNameKey] = JUInt(0)
    /\ polyDecoded = Throw

\* an accepted tree that names a candidate but lacks its members
C17_AcceptedDecodeThrows ==
    /\ polyTree # NoVal
    /\ NamesCandidate(polyCandidates, polyTree)
    /\ polyValid = "true"
    /\ polyDecoded = Throw

\* what Write stored decodes to the value written
C17_RoundTripReached ==
    /\ polyValue # NoVal
    /\ RuntimeClass(polyValue) = "GrandChildTestType"
    /\ polyCandidates[1] = "BaseTestType"
    /\ polyDecoded = PtrV(polyValue)

(***************************************************************************)
(* Trees edited between Serialise and Deserialise                          *)
(***************************************************************************)
\* the test "Don't maintain sharedness for values that have been modified":
\* the wrapped content of a tree the caller holds is overwritten before the
\* tree is decoded
EditDocument ==
    \E d \in DOMAIN documents, v \in SharedValues :
        /\ documents[d].source # NullId
        /\ \A i \in DOMAIN decoded : decoded[i].doc # d
        /\ ~JsonEq(Val(documents[d].tree)[WrappedTypeKey], Serialise(SignedT, v))
        /\ documents' = [documents EXCEPT ![d].tree =
                JObj((UniqueIdentifierKey :> Val(@)[UniqueIdentifierKey]) @@
                     (WrappedTypeKey :> Serialise(SignedT, v)))]
        /\ UNCHANGED <<objects, caches, decoded, sharedValid>>
        /\ UNCHANGED <<harnessVars, builderVars, byteVars, polyVars, laterVars>>

NextEdited ==
    \/ MakeShared
    \/ ReleaseHandle
    \/ SerialiseHandle
    \/ SerialiseNullHandle
    \/ ValidateDocument
    \/ DeserialiseWithContext
    \/ DeserialiseWithoutContext
    \/ EditDocument

SpecEdited == Init /\ [][NextEdited]_vars

(***************************************************************************)
(* Properties of the identity cache                                        *)
(***************************************************************************)
Tag(j) == Val(Val(j)[UniqueIdentifierKey])
Content(j) == Val(j)[WrappedTypeKey]

\* the cache holds an entry for the tag and the content of the tree
HasEntry(cache, j) ==
    Tag(j) \in DOMAIN cache /\ Dump(Content(j)) \in DOMAIN cache[Tag(j)]
EntryOf(cache, j) == cache[Tag(j)][Dump(Content(j))]

\* this step is a Deserialise of documents[d] with the Context c that
\* returned an instance
DecodeStep(c, d) ==
    /\ Len(decoded') = Len(decoded) + 1
    /\ decoded'[Len(decoded')].ctx = c
    /\ decoded'[Len(decoded')].doc = d

\* C21: a Deserialise that finds, for the tag and the content of its tree,
\* an entry whose instance has been destroyed allocates a new instance that
\* holds the content of the tree, returns it as the caller's only handle and
\* leaves the entry referring, weakly, to the new instance; every other
\* entry of the cache and every other cache stay as they were.
C21_ExpiredEntryIsMiss ==
    [][\A c \in Contexts, d \in DOMAIN documents :
        (/\ DecodeStep(c, d)
         /\ HasEntry(caches[c], documents[d].tree)
         /\ EntryOf(caches[c], documents[d].tree).target # NullId
         /\ ~Alive(EntryOf(caches[c], documents[d].tree).target))
        => /\ objects' = Append(objects,
                    [addr |-> objects'[Len(objects')].addr,
                     value |-> Deserialise(SignedT, Content(documents[d].tree)),
                     owners |-> 1])
           /\ decoded'[Len(decoded')].obj = Len(objects) + 1
           /\ caches' = [caches EXCEPT ![c] =
                    [@ EXCEPT ![Tag(documents[d].tree)] =
                        [@ EXCEPT ![Dump(Content(documents[d].tree))] =
                            [target |-> Len(objects) + 1, owning |-> FALSE]]]]
    ]_vars

\* a tree was decoded twice in one Context, the first instance was destroyed
\* in between, and the entry now refers to the second instance
C21_EntryReplaced ==
    \E i, n \in DOMAIN decoded :
        /\ i < n
        /\ n = Len(decoded)
        /\ decoded[i].doc = decoded[n].doc
        /\ decoded[i].ctx = decoded[n].ctx
        /\ decoded[i].ctx # Private
        /\ decoded[i].obj # NullId
        /\ decoded[i].obj \notin decoded[n].live
        /\ decoded[n].obj # decoded[i].obj
        /\ HasEntry(caches[decoded[n].ctx], documents[decoded[n].doc].tree)
        /\ EntryOf(caches[decoded[n].ctx], documents[decoded[n].doc].tree).target
                = decoded[n].obj

\* C22: within one Context, decodes of two trees that carry the same address
\* but different wrapped content return two different instances, each
\* holding the content of its own tree.
C22_HitNeedsEqualContent ==
    \A i, n \in DOMAIN decoded :
        (/\ decoded[i].ctx = decoded[n].ctx
         /\ decoded[i].ctx # Private
         /\ Tag(documents[decoded[i].doc].tree) = Tag(documents[decoded[n].doc].tree)
         /\ ~JsonEq(Content(documents[decoded[i].doc].tree),
                    Content(documents[decoded[n].doc].tree)))
        => /\ decoded[i].obj # decoded[n].obj
           /\ objects[decoded[i].obj].value
                = Deserialise(SignedT, Content(documents[decoded[i].doc].tree))
           /\ objects[decoded[n].obj].value
                = Deserialise(SignedT, Content(documents[decoded[n].doc].tree))

\* two encodings of one object, one of them edited, were decoded in one
\* Context while the first decoded instance was still held
C22_EditedDecodedApart ==
    \E i, n \in DOMAIN decoded :
        /\ i < n
        /\ decoded[i].ctx = decoded[n].ctx
        /\ decoded[i].ctx # Private
        /\ Source(i) = Source(n)
        /\ decoded[i].obj \in decoded[n].live
        /\ Tag(documents[decoded[i].doc].tree) = Tag(documents[decoded[n].doc].tree)
        /\ ~JsonEq(Content(documents[decoded[i].doc].tree),
                   Content(documents[decoded[n].doc].tree))
        /\ decoded[i].obj # decoded[n].obj

\* C23: a step that is a Serialise or a Validate of the shared_ptr codec
\* leaves every cache as it was, and so does a Deserialise that finds a live
\* entry for the tag and the content of its tree; a cache that changes
\* changes in a Deserialise that found none.
C23_CacheFrame ==
    [][/\ (documents' # documents \/ sharedValid' # sharedValid) => caches' = caches
       /\ \A c \in Contexts, d \in DOMAIN documents :
            (/\ DecodeStep(c, d)
             /\ HasEntry(caches[c], documents[d].tree)
             /\ Alive(EntryOf(caches[c], documents[d].tree).target))
            => caches' = caches
       /\ caches' # caches =>
            \E c \in Contexts, d \in DOMAIN documents :
                /\ HasEntry(caches'[c], documents[d].tree)
                /\ caches' = [caches EXCEPT ![c] = AddToCache(caches[c], documents[d].tree,
                                EntryOf(caches'[c], documents[d].tree).target)]
                /\ ~(/\ HasEntry(caches[c], documents[d].tree)
                     /\ Alive(EntryOf(caches[c], documents[d].tree).target))
    ]_vars

\* a Validate and a second Deserialise of a tree found the entry the first
\* Deserialise had stored, which is still the only one
C23_HitAfterValidate ==
    \E i, n \in DOMAIN decoded :
        /\ i < n
        /\ decoded[i].doc = decoded[n].doc
        /\ decoded[i].ctx = decoded[n].ctx
        /\ decoded[i].ctx # Private
        /\ decoded[n].obj = decoded[i].obj
        /\ sharedValid = BoolV(TRUE)
        /\ Cardinality({e \in CacheEntries : e[1] = decoded[i].ctx}) = 1

(***************************************************************************)
(* The steps of internal::Implementation's Validate, Serialise,            *)
(* Deserialise and DeserialiseInPlace.  A run is the steps a call has      *)
(* started so far, in order, and the instance built so far (Throw once an  *)
(* exception is on its way out).  A step names the callable invoked, the   *)
(* initialisation call or the key it belongs to and the instance it works  *)
(* on: the n-th instance constructed during the call.                      *)
(***************************************************************************)
\* most Serialise and Deserialise calls counted
MaxCalls == 3

Step(name, index, key, target) ==
    [name |-> name, index |-> index, key |-> key, target |-> target]

\* iteration order of std::map<std::string, Variable> over the generated keys
KeyOrder ==
    <<"param0", "param1", "param2", "param3", "param4",
      "param5", "param6", "param7", "param8", "param9">>
SortedKeys(keys) ==
    LET IsRegistered(key) == key \in keys IN SelectSeq(KeyOrder, IsRegistered)

\* T deserialised = constructor_(toDeserialise)
ConstructSteps(cfg, j) ==
    [trace |-> <<Step("constructor", 0, "", 1)>>, value |-> Construct(cfg, j)]

\* std::invoke(factory, Serialiser<ConstructionArgs>::Deserialise(...)...):
\* the arguments are read before the factory is entered
FactorySteps(cfg, j, run, target) ==
    LET args == ReadKeys(cfg, j, cfg.constructionVariables) IN
    IF run.value = Throw \/ AnyThrow(args) THEN [run EXCEPT !.value = Throw]
    ELSE [trace |-> Append(run.trace, Step("factory", 0, "", target)),
          value |-> SetMembers(DefaultValue(ClassT(cfg)), cfg.constructionVariables, args)]

\* for (auto& initialiser : initialisationCalls_)
RECURSIVE InitialiseSteps(_, _, _, _, _)
InitialiseSteps(cfg, j, i, run, target) ==
    IF run.value = Throw \/ i > Len(cfg.initialisationCalls) THEN run
    ELSE LET keys == cfg.initialisationCalls[i]
             args == ReadKeys(cfg, j, keys)
             started == Append(run.trace, Step("initialiser", i, "", target))
         IN InitialiseSteps(cfg, j, i + 1,
                [trace |-> started,
                 value |-> IF AnyThrow(args) THEN Throw
                           ELSE SetMembers(run.value, keys, args)], target)

\* for (const auto& [ key, memberHelper ] : variables_)
\*     memberHelper.parser_(toDeserialise.at(key), deserialised);
RECURSIVE ParseSteps(_, _, _, _, _, _)
ParseSteps(cfg, j, keys, i, run, target) ==
    IF run.value = Throw \/ i > Len(keys) THEN run
    ELSE IF ~Contains(j, keys[i]) THEN [run EXCEPT !.value = Throw]
    ELSE LET key == keys[i]
             parsed == IF cfg.variables[key].setter
                       THEN Deserialise(cfg.variables[key].type, Val(j)[key])
                       ELSE Val(run.value)[key]
             started == Append(run.trace, Step("parser", 0, key, target))
         IN ParseSteps(cfg, j, keys, i + 1,
                [trace |-> started,
                 value |-> IF parsed = Throw THEN Throw
                           ELSE SetMembers(run.value, <<key>>, <<parsed>>)], target)

\* a post-deserialise action that is invoked twice
PostDeserialiseStepsTwice(run, target) ==
    IF run.value = Throw THEN run
    ELSE [run EXCEPT !.trace = @ \o <<Step("postDeserialise", 0, "", target),
                                      Step("postDeserialise", 0, "", target)>>]

\* std::invoke(postDeserialisationAction_, toDeserialise, deserialised)
PostDeserialiseSteps(run, target) ==
    IF run.value = Throw THEN run
    ELSE [run EXCEPT !.trace = Append(@, Step("postDeserialise", 0, "", target))]

\* a decode that sets the registered variables before the initialisation calls
DeserialiseStepsParseFirst(cfg, j) ==
    PostDeserialiseSteps(
        InitialiseSteps(cfg, j, 1,
            ParseSteps(cfg, j, SortedKeys(DOMAIN cfg.variables), 1,
                ConstructSteps(cfg, j), 1), 1), 1)

\* Implementation::Deserialise
DeserialiseSteps(cfg, j) ==
    PostDeserialiseSteps(
        ParseSteps(cfg, j, SortedKeys(DOMAIN cfg.variables), 1,
            InitialiseSteps(cfg, j, 1, ConstructSteps(cfg, j), 1), 1), 1)

\* Implementation::DeserialiseInPlace with a factory that never returns
\* nullptr (make_unique, make_shared): retVal is assigned the result of a
\* second invocation, and that object is completed
DeserialiseInPlaceSteps(cfg, j) ==
    PostDeserialiseSteps(
        ParseSteps(cfg, j, SortedKeys(DOMAIN cfg.variables), 1,
            InitialiseSteps(cfg, j, 1,
                FactorySteps(cfg, j,
                    FactorySteps(cfg, j, [trace |-> <<>>, value |-> NoVal], 1), 2), 2), 2), 2)

\* Implementation::Serialise: every writer_, then postSerialisationAction_
SerialiseSteps(cfg, keys) ==
    Append([i \in DOMAIN keys |-> Step("writer", 0, keys[i], 1)],
           Step("postSerialise", 0, "", 1))

\* Implementation::Validate: the validator_ of every key of the tree that is
\* registered, then the joint validators
ValidateSteps(cfg, j) ==
    IF Kind(j) # "object" THEN <<>>
    ELSE LET keys == SortedKeys(DOMAIN Val(j) \cap DOMAIN cfg.variables)
             single == [i \in DOMAIN keys |-> Step("validator", 0, keys[i], 0)]
             joint == [i \in DOMAIN cfg.validators |-> Step("jointValidator", i, "", 0)]
         IN IF ImplValidate(cfg, j) = "false" /\ RunValidators(cfg, j, 1) = "true"
            THEN single
            ELSE single \o joint

\* the number of steps of a trace with the given name
Count(trace, name) == Cardinality({i \in DOMAIN trace : trace[i].name = name})

\* what Configure() does: a construction over n parameters (none: T is
\* default-constructed), then initialisation calls of one parameter each,
\* then registered member variables
RECURSIVE AddInitialisationCalls(_, _)
AddInitialisationCalls(cfg, n) ==
    IF n = 0 THEN cfg
    ELSE LET made == CreateParameters(cfg,
                        <<[label |-> NoLabel, type |-> SignedT, custom |-> "none"]>>, 1, <<>>)
         IN AddInitialisationCalls(AddInitialisationCall(made.cfg, made.keys), n - 1)

RECURSIVE RegisterVariables(_, _)
RegisterVariables(cfg, n) ==
    IF n = 0 THEN cfg
    ELSE RegisterVariables(RegisterVariableInternal(cfg, NoLabel, SignedT, "none"), n - 1)

Configured(construction, initialisers, variables) ==
    LET made == CreateParameters(NewImplementation,
                    [i \in 1..construction |->
                        [label |-> NoLabel, type |-> SignedT, custom |-> "none"]], 1, <<>>)
        constructed == IF construction = 0 THEN made.cfg
                       ELSE SetConstruction(made.cfg, made.keys)
    IN RegisterVariables(AddInitialisationCalls(constructed, initialisers), variables)

\* the trees handed to the configured Implementation: every registered key
\* present or missing, and one member of the wrong kind
StepTrees(cfg) ==
    ObjectsOver(DOMAIN cfg.variables, {JInt(1)})
    \cup {JObj([key \in DOMAIN cfg.variables |->
                    IF key = bad THEN JStr("a") ELSE JInt(1)]) :
            bad \in DOMAIN cfg.variables}

\* Serialiser<T>::Configure(), run once when helper_ is initialised; it may
\* also call DefinePostSerialiseAction and DefinePostDeserialiseAction
Configure ==
    \E construction, initialisers, variables \in 0..MaxVariables :
        /\ ~stepConfigured
        /\ stepHelper' = Configured(construction, initialisers, variables)
        /\ stepConfigured' = TRUE
        /\ UNCHANGED <<stepCalls, stepHooks, stepCall>>
        /\ UNCHANGED <<earlierVars, readerVars, writerVars, lifetimeVars>>

Counted == stepCalls.Serialise + stepCalls.Deserialise < MaxCalls

\* helper_.Validate(tree)
StepValidate ==
    \E j \in StepTrees(stepHelper) \cup {JNull} :
        /\ stepConfigured
        /\ stepCall' = [op |-> "Validate", trace |-> ValidateSteps(stepHelper, j),
                        threw |-> ImplValidate(stepHelper, j) = "throw", returned |-> 0]
        /\ stepHooks' = [postSerialise |-> stepHooks.postSerialise
                                            + Count(stepCall'.trace, "postSerialise"),
                         postDeserialise |-> stepHooks.postDeserialise
                                            + Count(stepCall'.trace, "postDeserialise")]
        /\ UNCHANGED <<stepHelper, stepConfigured, stepCalls>>
        /\ UNCHANGED <<earlierVars, readerVars, writerVars, lifetimeVars>>

\* helper_.Serialise(value)
StepSerialise ==
    /\ stepConfigured
    /\ Counted
    /\ stepCall' = [op |-> "Serialise",
                    trace |-> SerialiseSteps(stepHelper,
                                             SortedKeys(DOMAIN stepHelper.variables)),
                    threw |-> FALSE, returned |-> 1]
    /\ stepCalls' = [stepCalls EXCEPT !.Serialise = @ + 1]
    /\ stepHooks' = [postSerialise |-> stepHooks.postSerialise
                                        + Count(stepCall'.trace, "postSerialise"),
                     postDeserialise |-> stepHooks.postDeserialise
                                        + Count(stepCall'.trace, "postDeserialise")]
    /\ UNCHANGED <<stepHelper, stepConfigured>>
    /\ UNCHANGED <<earlierVars, readerVars, writerVars, lifetimeVars>>

\* what a decode that ran as run leaves behind
Decoded(op, run, returned) ==
    /\ stepCall' = [op |-> op, trace |-> run.trace, threw |-> run.value = Throw,
                    returned |-> IF run.value = Throw THEN 0 ELSE returned]
    /\ stepCalls' = [stepCalls EXCEPT !.Deserialise =
                        IF run.value = Throw THEN @ ELSE @ + 1]
    /\ stepHooks' = [postSerialise |-> stepHooks.postSerialise
                                        + Count(run.trace, "postSerialise"),
                     postDeserialise |-> stepHooks.postDeserialise
                                        + Count(run.trace, "postDeserialise")]

\* helper_.Deserialise(tree)
StepDeserialise ==
    \E j \in StepTrees(stepHelper) :
        /\ stepConfigured
        /\ Counted
        /\ Decoded("Deserialise", DeserialiseSteps(stepHelper, j), 1)
        /\ UNCHANGED <<stepHelper, stepConfigured>>
        /\ UNCHANGED <<earlierVars, readerVars, writerVars, lifetimeVars>>

\* helper_.DeserialiseInPlace(factory, tree, indexes)
StepDeserialiseInPlace ==
    \E j \in StepTrees(stepHelper) :
        /\ stepConfigured
        /\ Counted
        /\ Decoded("DeserialiseInPlace", DeserialiseInPlaceSteps(stepHelper, j), 2)
        /\ UNCHANGED <<stepHelper, stepConfigured>>
        /\ UNCHANGED <<earlierVars, readerVars, writerVars, lifetimeVars>>

NextSteps ==
    \/ Configure
    \/ StepValidate
    \/ StepSerialise
    \/ StepDeserialise
    \/ StepDeserialiseInPlace

SpecSteps == Init /\ [][NextSteps]_vars

(***************************************************************************)
(* Properties of the steps of a ClassHelper decode and encode              *)
(***************************************************************************)
\* the steps of a complete Implementation::Deserialise
AllSteps(cfg) ==
    <<Step("constructor", 0, "", 1)>>
    \o [i \in DOMAIN cfg.initialisationCalls |-> Step("initialiser", i, "", 1)]
    \o [i \in DOMAIN SortedKeys(DOMAIN cfg.variables) |->
            Step("parser", 0, SortedKeys(DOMAIN cfg.variables)[i], 1)]
    \o <<Step("postDeserialise", 0, "", 1)>>

\* C24: a Deserialise that returns has run, in this order and once each, the
\* constructor, every initialisation call in registration order, the parser
\* of every registered variable and the post-deserialise action; one that
\* throws has run a proper prefix of that sequence.
C24_DeserialiseOrder ==
    stepCall.op = "Deserialise" =>
        IF stepCall.threw
        THEN /\ Len(stepCall.trace) < Len(AllSteps(stepHelper))
             /\ stepCall.trace = SubSeq(AllSteps(stepHelper), 1, Len(stepCall.trace))
        ELSE stepCall.trace = AllSteps(stepHelper)

\* a returned Deserialise of a type with construction parameters, two
\* initialisation calls and two registered variables
C24_EveryKindOfStep ==
    /\ stepCall.op = "Deserialise"
    /\ ~stepCall.threw
    /\ Len(stepHelper.constructionVariables) = 2
    /\ Len(stepHelper.initialisationCalls) = 2
    /\ Count(stepCall.trace, "initialiser") = 2
    /\ Count(stepCall.trace, "parser") = 6
    /\ stepCall.trace[Len(stepCall.trace)].name = "postDeserialise"

C26_FactoryOnce ==
    (stepCall.op = "DeserialiseInPlace" /\ ~stepCall.threw) =>
        /\ Count(stepCall.trace, "factory") = 1
        /\ \A i \in DOMAIN stepCall.trace :
                stepCall.trace[i].name # "factory" =>
                    stepCall.trace[i].target = stepCall.returned

\* the factory was invoked twice; the second instance was completed and returned
C26_FactoryInvokedTwice ==
    /\ stepCall.op = "DeserialiseInPlace"
    /\ ~stepCall.threw
    /\ Count(stepCall.trace, "factory") = 2
    /\ stepCall.trace[1] = Step("factory", 0, "", 1)
    /\ stepCall.trace[2] = Step("factory", 0, "", 2)
    /\ stepCall.returned = 2
    /\ \A i \in DOMAIN stepCall.trace :
            i > 2 => stepCall.trace[i].target = 2

(***************************************************************************)
(* DataReader (DataReader.h) over an element type that needs no            *)
(* delegation (int).  A member function yields the reader afterwards and   *)
(* the std::optional it returns.                                           *)
(***************************************************************************)
\* most errors a reader or writer logs before it is replaced
MaxErrors == 3

ReaderLogError(r, error) == [r EXCEPT !.errors = Append(@, error)]

SetFormatIfUnset(r, format) ==
    IF r.format = "Unset" THEN [r EXCEPT !.format = format] ELSE r

\* DataReader::Size
Size(r) ==
    LET set == SetFormatIfUnset(r, "Array") IN
    IF set.format # "Array"
    THEN [reader |-> ReaderLogError(set, "Size: format"), result |-> NullOpt]
    ELSE IF Kind(set.dataStore) = "object"
    THEN [reader |-> ReaderLogError(set, "Size: object"), result |-> NullOpt]
    ELSE IF Kind(set.dataStore) # "array"
    THEN [reader |-> ReaderLogError(set, "Size: value"), result |-> NullOpt]
    ELSE [reader |-> [set EXCEPT !.capacity = Len(Val(set.dataStore))],
          result |-> SomeV(Len(Val(set.dataStore)))]

\* DataReader::PopBack<int>: the element at capacity_ - remainingReads_ (from
\* 0) is returned before remainingReads_ is decremented
PopBack(r) ==
    IF r.format = "Unset"
    THEN [reader |-> ReaderLogError(r, "PopBack: unset"), result |-> NullOpt]
    ELSE IF r.format # "Array"
    THEN [reader |-> ReaderLogError(r, "PopBack: format"), result |-> NullOpt]
    ELSE IF r.remainingReads = 0
    THEN [reader |-> ReaderLogError(r, "PopBack: all read"), result |-> NullOpt]
    ELSE [reader |-> r,
          result |-> SomeV(GetInteger(
                        Val(r.dataStore)[r.capacity - r.remainingReads + 1],
                        TRUE, IntBits))]

\* the while loop of ReadRange: items.insert(items.end(), *item) for every
\* PopBack that returns a value, until count items are read or one fails
RECURSIVE ReadItems(_, _, _)
ReadItems(r, counted, items) ==
    IF Len(items) = counted THEN [reader |-> r, items |-> items]
    ELSE LET popped == PopBack(r) IN
         IF popped.result = NullOpt THEN [reader |-> popped.reader, items |-> items]
         ELSE ReadItems(popped.reader, counted, Append(items, Val(popped.result)))

\* DataReader::ReadRange<std::vector<int>>
ReadRange(r) ==
    LET sized == Size(r) IN
    IF sized.result = NullOpt
    THEN [reader |-> ReaderLogError(sized.reader, "ReadRange: failed at 0"),
          result |-> NullOpt]
    ELSE LET read == ReadItems(sized.reader, Val(sized.result), <<>>) IN
         IF Len(read.items) = Val(sized.result)
         THEN [reader |-> read.reader, result |-> SomeV(VecV(read.items))]
         ELSE [reader |-> ReaderLogError(read.reader, "ReadRange: failed"),
               result |-> NullOpt]

\* the trees a reader is created on: arrays of integers, an object, values
ReaderTrees ==
    {JArr(s) : s \in SeqsUpTo({JInt(0), JInt(1)}, MaxLen)}
    \cup {JObj(<<>>), JInt(1), JNull}

\* DataReader::Create(context, name, dataStore)
CreateReader ==
    \E j \in ReaderTrees :
        /\ reader' = NewReader(j)
        /\ readResult' = NoVal
        /\ UNCHANGED <<earlierVars, stepVars, writerVars, lifetimeVars>>

\* reader.Size()
CallSize ==
    /\ Len(reader.errors) < MaxErrors
    /\ reader' = Size(reader).reader
    /\ UNCHANGED readResult
    /\ UNCHANGED <<earlierVars, stepVars, writerVars, lifetimeVars>>

\* reader.PopBack<int>()
CallPopBack ==
    /\ Len(reader.errors) < MaxErrors
    /\ reader' = PopBack(reader).reader
    /\ UNCHANGED readResult
    /\ UNCHANGED <<earlierVars, stepVars, writerVars, lifetimeVars>>

\* reader.ReadRange<std::vector<int>>()
CallReadRange ==
    /\ Len(reader.errors) < MaxErrors
    /\ readResult = NoVal
    /\ reader' = ReadRange(reader).reader
    /\ readResult' = ReadRange(reader).result
    /\ UNCHANGED <<earlierVars, stepVars, writerVars, lifetimeVars>>

NextReader ==
    \/ CreateReader
    \/ CallSize
    \/ CallPopBack
    \/ CallReadRange

SpecReader == Init /\ [][NextReader]_vars

\* C27: ReadRange on a reader created on an array of n integers returns a
\* vector holding the n elements, decoded, in the order of the array (Size
\* does not fail on an array and every element is a readable integer).
C27_ReadRangeInOrder ==
    (readResult # NoVal /\ Kind(reader.dataStore) = "array") =>
        readResult = SomeV(VecV([i \in DOMAIN Val(reader.dataStore) |->
                        GetInteger(Val(reader.dataStore)[i], TRUE, IntBits)]))

\* ReadRange, the first call on a reader over [0, 1], returned nothing:
\* the first PopBack found no reads remaining
C27_NothingRead ==
    /\ reader.dataStore = JArr(<<JInt(0), JInt(1)>>)
    /\ reader.capacity = 2
    /\ reader.remainingReads = 0
    /\ reader.errors = <<"PopBack: all read", "ReadRange: failed">>
    /\ readResult = NullOpt

(***************************************************************************)
(* DataWriter (DataWriter.h) over values that need no delegation (int).    *)
(* writer is the one DataWriter alive, or the last one destroyed, together *)
(* with the errors it logged; writerCall names the member function that    *)
(* was called last.                                                        *)
(***************************************************************************)
\* a SetFormatToArray that does not look at the format already set
SetFormatToArrayAgain(w, counted) ==
    [w EXCEPT !.format = "Array", !.dataStore = JArr(<<>>),
              !.remainingWrites = counted, !.capacity = counted]

\* DataWriter::SetFormatToArray(count)
SetFormatToArray(w, counted) ==
    IF w.format # "Unset" THEN WriterLogError(w, "SetFormatToArray")
    ELSE [w EXCEPT !.format = "Array", !.dataStore = JArr(<<>>),
                   !.remainingWrites = counted, !.capacity = counted]

\* DataWriter::SetFormatToObject
SetFormatToObject(w) ==
    IF w.format # "Unset" THEN WriterLogError(w, "SetFormatToObject")
    ELSE [w EXCEPT !.format = "Object", !.dataStore = JObj(<<>>)]

\* DataWriter::Write<int>: dataStore_ = value
WriteValue(w, item) ==
    IF w.format # "Value" THEN WriterLogError(w, "Write: format")
    ELSE IF w.remainingWrites = 0 THEN WriterLogError(w, "Write: repeat")
    ELSE [w EXCEPT !.dataStore = JInt(item), !.remainingWrites = @ - 1]

\* a PushBack that does not count the value it appends
PushBackUncounted(w, item) ==
    IF w.format # "Array" THEN WriterLogError(w, "PushBack: format")
    ELSE IF w.remainingWrites = 0 THEN WriterLogError(w, "PushBack: capacity")
    ELSE [w EXCEPT !.dataStore = JArr(Append(Val(@), JInt(item)))]

\* DataWriter::PushBack<int>: dataStore_.push_back(value)
PushBack(w, item) ==
    IF w.format # "Array" THEN WriterLogError(w, "PushBack: format")
    ELSE IF w.remainingWrites = 0 THEN WriterLogError(w, "PushBack: capacity")
    ELSE [w EXCEPT !.dataStore = JArr(Append(Val(@), JInt(item))),
                   !.remainingWrites = @ - 1]

\* DataWriter::Insert<int>: dataStore_[label] = value
Insert(w, label, item) ==
    IF w.format # "Object" THEN WriterLogError(w, "Insert: format")
    ELSE IF label = "" THEN WriterLogError(w, "Insert: empty label")
    ELSE IF label \in DOMAIN Val(w.dataStore)
    THEN WriterLogError(w, "Insert: label re-used")
    ELSE [w EXCEPT !.dataStore = JObj((label :> JInt(item)) @@ Val(@))]

\* DataWriter::~DataWriter
Destruct(w) ==
    CASE w.format = "Unset" -> WriterLogError(w, "~DataWriter: unused")
      [] w.format = "Value" ->
            IF w.remainingWrites > 0
            THEN WriterLogError(w, "~DataWriter: value not written")
            ELSE w
      [] w.format = "Array" ->
            IF w.remainingWrites > 0
            THEN WriterLogError(w, "~DataWriter: values to PushBack")
            ELSE w
      [] w.format = "Object" -> w

\* the values written and the labels they are inserted under
WriterValues == {0, 1}
WriterLabels == {"", "a", "b"}

\* the writer is alive and has logged fewer than MaxErrors errors
Writing == writerCall # "~DataWriter" /\ Len(writer.errors) < MaxErrors

\* DataWriter::Create(context, name, dataStore), once the writer before it
\* is destroyed
CreateWriter ==
    /\ writerCall = "~DataWriter"
    /\ writer' = NewWriter
    /\ writerCall' = "Create"
    /\ UNCHANGED <<earlierVars, stepVars, readerVars, lifetimeVars>>

CallSetFormatToValue ==
    /\ Writing
    /\ writer' = SetFormatToValue(writer)
    /\ writerCall' = "SetFormatToValue"
    /\ UNCHANGED <<earlierVars, stepVars, readerVars, lifetimeVars>>

CallSetFormatToArray ==
    /\ Writing
    /\ \E counted \in 0..MaxLen : writer' = SetFormatToArray(writer, counted)
    /\ writerCall' = "SetFormatToArray"
    /\ UNCHANGED <<earlierVars, stepVars, readerVars, lifetimeVars>>

CallSetFormatToObject ==
    /\ Writing
    /\ writer' = SetFormatToObject(writer)
    /\ writerCall' = "SetFormatToObject"
    /\ UNCHANGED <<earlierVars, stepVars, readerVars, lifetimeVars>>

CallWriteValue ==
    /\ Writing
    /\ \E item \in WriterValues : writer' = WriteValue(writer, item)
    /\ writerCall' = "Write"
    /\ UNCHANGED <<earlierVars, stepVars, readerVars, lifetimeVars>>

CallPushBack ==
    /\ Writing
    /\ \E item \in WriterValues : writer' = PushBack(writer, item)
    /\ writerCall' = "PushBack"
    /\ UNCHANGED <<earlierVars, stepVars, readerVars, lifetimeVars>>

CallInsert ==
    /\ Writing
    /\ \E label \in WriterLabels, item \in WriterValues :
            writer' = Insert(writer, label, item)
    /\ writerCall' = "Insert"
    /\ UNCHANGED <<earlierVars, stepVars, readerVars, lifetimeVars>>

\* the writer goes out of scope
DestroyWriter ==
    /\ writerCall # "~DataWriter"
    /\ writer' = Destruct(writer)
    /\ writerCall' = "~DataWriter"
    /\ UNCHANGED <<earlierVars, stepVars, readerVars, lifetimeVars>>

NextWriter ==
    \/ CreateWriter
    \/ CallSetFormatToValue
    \/ CallSetFormatToArray
    \/ CallSetFormatToObject
    \/ CallWriteValue
    \/ CallPushBack
    \/ CallInsert
    \/ DestroyWriter

SpecWriter == Init /\ [][NextWriter]_vars

\* the call logged exactly one error
LoggedOne == Len(writer'.errors) = Len(writer.errors) + 1

\* C28: after SetFormatToArray(n) the elements of the output array plus
\* the remaining writes are always n (the capacity); a PushBack once n are
\* appended logs an error and leaves the array as it is; destroying the
\* writer with writes remaining logs an error.
C28_ArrayWritesCounted ==
    [][ /\ writer'.format = "Array" =>
            /\ Len(Val(writer'.dataStore)) + writer'.remainingWrites
                    = writer'.capacity
            /\ Len(Val(writer'.dataStore)) <= writer'.capacity
        /\ (writerCall' = "SetFormatToArray" /\ writer.format = "Unset") =>
            /\ writer'.dataStore = JArr(<<>>)
            /\ writer'.remainingWrites = writer'.capacity
        /\ (writer.format = "Array" /\ writerCall' # "Create") =>
            writer'.capacity = writer.capacity
        /\ (writerCall' = "PushBack" /\ writer.format = "Array"
                /\ Len(Val(writer.dataStore)) = writer.capacity) =>
            /\ writer'.dataStore = writer.dataStore
            /\ LoggedOne
        /\ (writerCall' = "~DataWriter" /\ writer.format = "Array"
                /\ writer.remainingWrites > 0) =>
            LoggedOne
      ]_vars

\* a third PushBack on an array of two logged an error, and so did the
\* destructor of a writer one value short
C28_CapacityReached ==
    /\ writer.format = "Array"
    /\ writer.capacity = 2
    /\ writerCall = "PushBack"
    /\ Len(Val(writer.dataStore)) = 2
    /\ writer.errors = <<"PushBack: capacity">>

\* C29: once the format is Value, Array or Object a SetFormatTo... call
\* leaves format, capacity, remaining writes and data store as they are and
\* logs an error; Write, PushBack and Insert change the data store only
\* under the format Value, Array and Object respectively.
C29_FormatSetOnce ==
    [][ /\ (writer.format # "Unset" /\ writerCall' \in
                {"SetFormatToValue", "SetFormatToArray", "SetFormatToObject"})
            => /\ writer'.format = writer.format
               /\ writer'.capacity = writer.capacity
               /\ writer'.remainingWrites = writer.remainingWrites
               /\ writer'.dataStore = writer.dataStore
               /\ LoggedOne
        /\ (writer.format # "Unset" /\ writerCall' # "Create")
            => writer'.format = writer.format
        /\ (writerCall' = "Write" /\ writer'.dataStore # writer.dataStore)
            => writer.format = "Value"
        /\ (writerCall' = "PushBack" /\ writer'.dataStore # writer.dataStore)
            => writer.format = "Array"
        /\ (writerCall' = "Insert" /\ writer'.dataStore # writer.dataStore)
            => writer.format = "Object"
      ]_vars

\* SetFormatToArray was refused on a writer that holds a written value
C29_SecondFormatRefused ==
    /\ writerCall = "SetFormatToArray"
    /\ writer.format = "Value"
    /\ writer.dataStore = JInt(1)
    /\ writer.remainingWrites = 0
    /\ writer.errors = <<"SetFormatToArray">>

(***************************************************************************)
(* ContextStateLifetime and internal::CurrentContext (CurrentContext.h),   *)
(* used from one thread.  lifetimes holds the ContextStateLifetime objects *)
(* alive, count is the static counter, caches_ the keys of the static map, *)
(* resets the number of calls of CurrentContext::Reset.                    *)
(***************************************************************************)
\* most ContextStateLifetime objects alive at a time
MaxLifetimes == 3
\* no ContextStateLifetime is constructed after this many resets
MaxResets == 3

\* the cache keys GetCache is called with
CacheNames == {"shared_ptr", "weak_ptr", "user"}

\* a destructor that resets the caches whatever the counter says
LifetimeDestructorAlwaysResets(counter, keys) ==
    [count |-> counter - 1, caches |-> {}, reset |-> TRUE]

\* ContextStateLifetime::~ContextStateLifetime:
\* if (--count == 0) CurrentContext::Reset(), which is caches_.clear()
LifetimeDestructor(counter, keys) ==
    IF counter - 1 = 0
    THEN [count |-> counter - 1, caches |-> {}, reset |-> TRUE]
    ELSE [count |-> counter - 1, caches |-> keys, reset |-> FALSE]

\* ContextStateLifetime::ContextStateLifetime: ++count
ConstructLifetime ==
    /\ resets < MaxResets
    /\ \E id \in (1..MaxLifetimes) \ lifetimes :
            lifetimes' = lifetimes \cup {id}
    /\ count' = count + 1
    /\ UNCHANGED <<caches_, resets>>
    /\ UNCHANGED <<earlierVars, stepVars, readerVars, writerVars>>

\* any of the objects alive is destroyed, whatever the order they were
\* constructed in
DestroyLifetime ==
    /\ \E id \in lifetimes : lifetimes' = lifetimes \ {id}
    /\ LET after == LifetimeDestructor(count, caches_) IN
        /\ count' = after.count
        /\ caches_' = after.caches
        /\ resets' = IF after.reset THEN resets + 1 ELSE resets
    /\ UNCHANGED <<earlierVars, stepVars, readerVars, writerVars>>

\* CurrentContext::GetCache<CacheType>(cacheName): caches_[cacheKey] creates
\* the entry when there is none
CurrentGetCache ==
    /\ \E name \in CacheNames :
            /\ name \notin caches_
            /\ caches_' = caches_ \cup {name}
    /\ UNCHANGED <<lifetimes, count, resets>>
    /\ UNCHANGED <<earlierVars, stepVars, readerVars, writerVars>>

NextLifetime ==
    \/ ConstructLifetime
    \/ DestroyLifetime
    \/ CurrentGetCache

SpecLifetime == Init /\ [][NextLifetime]_vars

\* C30: the counter is the number of ContextStateLifetime objects alive and
\* is never negative; Reset is called, and a cache is removed, exactly on
\* the step on which that number drops to zero.
C30_ResetWhenLastDestroyed ==
    [][ /\ count = Cardinality(lifetimes) /\ count >= 0
        /\ count' = Cardinality(lifetimes') /\ count' >= 0
        /\ (resets' # resets) <=> (lifetimes # {} /\ lifetimes' = {})
        /\ (resets' # resets) => (resets' = resets + 1 /\ caches_' = {})
        /\ (resets' = resets) => caches_ \subseteq caches_'
        /\ lifetimes' # {} => caches_ \subseteq caches_'
      ]_vars

\* after one reset, the first and the second of three objects are destroyed
\* and the caches filled since are all there
C30_InterleavedKeepsCaches ==
    /\ resets = 1
    /\ lifetimes = {3}
    /\ count = 1
    /\ caches_ = CacheNames

====
